---------------------------- MODULE Spec2Model ----------------------------
(***************************************************************************)
(* The agent orchestration engine of autosurf-server-node:                 *)
(*   - the session supervisor of the live endpoint                         *)
(*     (src/websocket/agentSocket.ts, class AgentWebSocketServer),         *)
(*   - the decision loop it drives                                         *)
(*     (src/real-browsing-agent/open-ai-agent.ts, class AIBrowserAgent),   *)
(*   - the replay endpoint (src/websocket/scriptRunnerSocket.ts, class     *)
(*     ScriptRunnerWebSocketServer),                                       *)
(*   - the executeAction override of the earlier live handler kept in      *)
(*     src/websocket/scriptRunnerSocket.ts (second AgentWebSocketServer),  *)
(*     the only code that sends step_update.                               *)
(*                                                                         *)
(* AIBrowserAgent.performTask has no return statement, and the class has   *)
(* no captureScreenshot nor onStepUpdate: the supervisor's read of         *)
(* result.steps throws, so every live run that reaches the end of its      *)
(* loop ends in handleAgentError.                                          *)
(*                                                                         *)
(* Every handler is an async function.  A handler invocation is a "task";  *)
(* its position (pc) is the await it is suspended at, and one action of    *)
(* the model is the code that runs from the completion of that await to    *)
(* the next await on an external party (store, browser, language model).   *)
(* An await of an already computed value is not a suspension point of the  *)
(* model.                                                                  *)
(***************************************************************************)
EXTENDS Integers, Sequences, FiniteSets, TLC

(***************************************************************************)
(* Bounds of the model (not program constants).                            *)
(***************************************************************************)
MaxTasks == 2
\* handler invocations (start messages honoured) in one behaviour

MaxTextLen == 3
\* longest text the language model returns, in characters

MaxLoopCalls == 27
\* language-model calls answered in the decision-loop specification

MaxTextCalls == 2
\* language-model calls answered in the response-text specification

MaxSupCalls == 1
\* language-model calls answered per task in the supervisor specification

MaxTicks == 2
\* heartbeat ticks counted per connection (the count stops there)

MaxStepCalls == 3
\* language-model calls answered per run in the step-update specification

MaxElements == 3
\* elements of the document the annotation scripts run in

MaxOps == 3
\* callbacks of the periodic screenshot timer per session
MaxPumpTicks == 2
\* tile-selection rounds counted per invocation (the count stops there)
MaxRounds == 2
\* evaluations of an annotation script in one document

(***************************************************************************)
(* Program constants.                                                      *)
(***************************************************************************)
MAX_STEPS == 25

None == "none"

Tasks == 1..MaxTasks
Conns == {"c1", "c2"}
Users == {"u1", "u2"}
Runs == {"r1"}
Automations == {"a1", "a2", "a3"}
Ids == Runs \cup Automations

\* a stored ScriptCommand (types.ts): its type, and whether the fields its
\* case of executeCommand tests (url, identifier, placeholder_value and
\* text, query) are present and non-empty; scroll, back and solveCaptcha
\* test none
Cmd(type, complete) == [type |-> type, complete |-> complete]

\* an id of saved_automations without row
NoRow == [owner |-> None, steps |-> << >>]

\* the saved_automations table when the server starts: two automations of
\* u1, and an id no row has yet
SavedAutomations ==
    [a \in Automations |->
        CASE a = "a1" -> [owner |-> "u1",
                          steps |-> <<Cmd("navigation", TRUE),
                                      Cmd("click", TRUE)>>]
          [] a = "a2" -> [owner |-> "u1",
                          steps |-> <<Cmd("click", TRUE), Cmd("type", FALSE),
                                      Cmd("solveCaptcha", TRUE)>>]
          [] OTHER -> NoRow]

(***************************************************************************)
(* Text.  A text is a sequence of characters; the empty sequence stands    *)
(* for a response without content (null or ""), which JavaScript treats    *)
(* as false in `if (response.content)`.                                    *)
(***************************************************************************)
Alphabet == {"a", "[", "]", " "}

TextsUpTo(n) == UNION {[1..k -> Alphabet] : k \in 0..n}

Texts == TextsUpTo(MaxTextLen)

\* the least j > i with s[j] = "]", or 0: where the lazy `.*?` of the
\* pattern stops
CloseAfter(s, i) ==
    LET js == {j \in (i+1)..Len(s) : s[j] = "]"}
    IN  IF js = {} THEN 0 ELSE CHOOSE j \in js : \A k \in js : j <= k

RECURSIVE StripFrom(_, _)
StripFrom(s, i) ==
    IF i > Len(s) THEN << >>
    ELSE IF s[i] = "[" /\ CloseAfter(s, i) # 0
         THEN StripFrom(s, CloseAfter(s, i) + 1)
         ELSE <<s[i]>> \o StripFrom(s, i + 1)

\* message.replace(/\[.*?\]/g, "")
StripBrackets(s) == StripFrom(s, 1)

RECURSIVE TrimLeft(_)
TrimLeft(s) ==
    IF s # << >> /\ Head(s) = " " THEN TrimLeft(Tail(s)) ELSE s

RECURSIVE TrimRight(_)
TrimRight(s) ==
    IF s # << >> /\ s[Len(s)] = " "
    THEN TrimRight(SubSeq(s, 1, Len(s) - 1))
    ELSE s

\* String.prototype.trim
Trim(s) == TrimRight(TrimLeft(s))

\* mutant of FilteredMessage: the bracketed segments are kept
FilteredMessageKeepsBrackets(message) == Trim(message)

\* responseValidator: const filteredMessage = ...
FilteredMessage(message) == Trim(StripBrackets(message))

\* mutant of IsRepetition: the comparison is never true
IsRepetitionNever(prev, filtered) == FALSE

\* responseValidator: if (filteredMessage && this.prev_message === filteredMessage)
IsRepetition(prev, filtered) == filtered # << >> /\ prev = filtered


(***************************************************************************)
(* State.                                                                  *)
(***************************************************************************)
VARIABLES
    conn,                 \* the client connections (AuthenticatedWebSocket)
    authing,              \* the authenticateUser call in flight, by its result
    last,                 \* the last message answered, and the reply
    sent,                 \* the run events each handler invocation sent, in order
    store,                \* the agent_runs table
    task,                 \* the handler invocations (handleAgentStart)
    agent,                \* the AIBrowserAgent each invocation creates
    activeAgents,         \* AgentWebSocketServer.activeAgents: run id -> agent
    screenshotIntervals,  \* AgentWebSocketServer.screenshotIntervals: run id -> timer
    timers,               \* the interval timers that are armed
    saved,                \* the saved_automations table
    resp,                 \* the last response of the HTTP surface
    page,                 \* the document the annotation scripts run in
    shots,                \* the periodic screenshots of each session
    cap,                  \* the CaptchaSolverTool invocation and its page
    lastTool              \* the last run() of ClickTool or TypingWithEnterTool

vars == <<conn, authing, last, sent, store, task, agent, activeAgents,
          screenshotIntervals, timers, saved, resp, page, shots, cap, lastTool>>

\* what the socket handlers never touch
sideVars == <<saved, resp, page, shots, cap, lastTool>>

connVars == <<conn, authing, last>>
mapVars == <<activeAgents, screenshotIntervals, timers>>

AuthResults == Users \cup {"invalid"}

\* the upgrade paths: /agent (AgentWebSocketServer) and /automation
\* (ScriptRunnerWebSocketServer)
Endpoints == {"agent", "script"}

\* the tools the dispatcher of executeAction knows (its switch)
KnownTools == {"handle_url", "handle_search", "handle_click", "handle_typing",
               "handle_typing_with_enter", "handle_captcha", "scroll_down",
               "handle_back"}

\* the names of the TOOLS array handed to the model (the titles of the
\* getJsonSchema of each tool; the one of TypingTool is not among the
\* sources and is left out)
DeclaredTools == {"handle_url", "handle_click", "handle_typing_with_enter",
                  "handle_captcha", "handle_scroll", "handle_back"}

\* executeAction: the command each case of the switch pushes
CommandOf(tool) ==
    CASE tool = "handle_url" -> "goto"
      [] tool = "handle_search" -> "type"
      [] tool = "handle_click" -> "click"
      [] tool = "handle_typing" -> "type"
      [] tool = "handle_typing_with_enter" -> "typeAndEnter"
      [] tool = "handle_captcha" -> "solveCaptcha"
      [] tool = "scroll_down" -> "scroll"
      [] tool = "handle_back" -> "back"
      [] OTHER -> None

\* mutant of StatementsOf: the switch has a case for solveCaptcha
StatementsOfWithCaptcha(cmd) ==
    CASE cmd = "goto" -> <<"page.goto">>
      [] cmd = "click" -> <<"page.click">>
      [] cmd = "type" -> <<"page.type">>
      [] cmd = "typeAndEnter" -> <<"page.type", "keyboard.press">>
      [] cmd = "scroll" -> <<"page.evaluate">>
      [] cmd = "back" -> <<"page.goBack">>
      [] cmd = "solveCaptcha" -> <<"solveCaptcha">>
      [] OTHER -> << >>

\* getExecutedCommands: the script statements written for one command
StatementsOf(cmd) ==
    CASE cmd = "goto" -> <<"page.goto">>
      [] cmd = "click" -> <<"page.click">>
      [] cmd = "type" -> <<"page.type">>
      [] cmd = "typeAndEnter" -> <<"page.type", "keyboard.press">>
      [] cmd = "scroll" -> <<"page.evaluate">>
      [] cmd = "back" -> <<"page.goBack">>
      [] OTHER -> << >>

RECURSIVE GetExecutedCommands(_)
\* AIBrowserAgent.getExecutedCommands: the body of the generated script
GetExecutedCommands(cmds) ==
    IF cmds = << >> THEN << >>
    ELSE StatementsOf(Head(cmds)) \o <<"page.waitForTimeout">>
             \o GetExecutedCommands(Tail(cmds))

\* the error messages that reach handleAgentError
E_RESULT == "Cannot read properties of undefined (reading 'steps')"
E_MODEL == "language model call failed"
E_PAGE == "page operation failed"
E_CAPTCHA == "Failed to solve initial CAPTCHA"
E_UNKNOWN == "Unknown tool"
E_TOOL == "tool failed"
E_LAUNCH == "browser launch failed"

NoTask == [kind |-> None, conn |-> None, run |-> None, pc |-> None,
           tool |-> None, wUser |-> None, wMsg |-> None, wCmds |-> << >>,
           exit |-> None, i |-> 0, hasCaptcha |-> FALSE, threwAt |-> 0,
           override |-> FALSE, steps |-> << >>]

NoAgent == [browser |-> None, stepCount |-> 0, prev_message |-> << >>,
            executedCommands |-> << >>, calls |-> 0, guidance |-> 0,
            dispatched |-> 0, lastText |-> << >>, turn |-> None]

NoConn == [state |-> "free", endpoint |-> None, userId |-> None,
           isAlive |-> FALSE, ticks |-> 0, ponged |-> FALSE]

NoLast == [conn |-> None, msg |-> None, hadUser |-> FALSE, reply |-> None]

\* no HTTP request answered yet
NoResp == [op |-> None, caller |-> None, id |-> None, owner |-> None]

NewRun(owner) == [owner |-> owner, status |-> "PENDING", steps |-> << >>,
                  finalAnswer |-> None, commands |-> None]

Terminal(status) == status \in {"COMPLETED", "FAILED"}

Event(type, status, persisted) ==
    [type |-> type, status |-> status, persisted |-> persisted]

\* sendExistingRunData: the existing_run event built from the row read
ExistingRun(run) ==
    [type |-> "existing_run", status |-> run.status, persisted |-> FALSE,
     steps |-> run.steps,
     finalAnswer |-> IF run.finalAnswer \in {None, ""}
                     THEN "This run is already in a terminal state"
                     ELSE run.finalAnswer,
     commands |-> IF run.commands = None THEN << >> ELSE run.commands]

(***************************************************************************)
(* The document of the annotation scripts (HighlightScript.ts).  An        *)
(* element is plain (the selector of the script does not match it),        *)
(* hidden (it matches, isElementVisible is false), named (visible, with    *)
(* a text, value, aria-label, title or placeholder) or bare (visible,      *)
(* without any).                                                           *)
(***************************************************************************)
\* no tool has run.  at: the evaluations the document had seen when the tool
\* ran (history)
NoTool ==
    [name |-> None, identifier |-> << >>, element |-> 0, by |-> None,
     attempts |-> 0, result |-> None, at |-> 0]

\* the solver before run(): present and checked are the page (a qualifying
\* element is there, the anchor checkbox is aria-checked), tried and rounds
\* are history
NoCap ==
    [pc |-> "idle", present |-> FALSE, checked |-> FALSE, attempts |-> 0,
     rounds |-> 0, continuous |-> FALSE, selected |-> FALSE, tried |-> << >>,
     result |-> None]

\* no periodic screenshot in flight, no callback run yet (ticks: history)
NoShots == [t \in 1..MaxTasks |-> [inFlight |-> 0, ticks |-> 0]]

Elements == 1..MaxElements

Kinds == {"plain", "hidden", "named", "bare"}

\* a document just loaded: no class, attribute, label nor stylesheet of the
\* scripts, and none of their top-level declarations
FreshPage(kind) ==
    [kind |-> kind, cls |-> {}, data |-> {}, labels |-> << >>, styles |-> 0,
     declared |-> {}, strict |-> FALSE, ops |-> << >>,
     text |-> [e \in DOMAIN kind |-> << >>]]

(***************************************************************************)
(* Init: the server after construction; the runs were created (PENDING)    *)
(* by the HTTP surface.                                                    *)
(***************************************************************************)
Init ==
    /\ conn = [c \in Conns |-> NoConn]
    /\ authing = [c \in Conns |-> None]
    /\ last = NoLast
    /\ sent = [t \in Tasks |-> << >>]
    /\ store = [r \in Runs |-> NewRun("u1")]
    /\ task = [t \in Tasks |-> NoTask]
    /\ agent = [t \in Tasks |-> NoAgent]
    /\ activeAgents = [r \in Ids |-> 0]
    /\ screenshotIntervals = [r \in Ids |-> 0]
    /\ timers = {}
    /\ saved = SavedAutomations
    /\ resp = NoResp
    /\ page = FreshPage([e \in Elements |-> "plain"])
    /\ shots = NoShots
    /\ cap = NoCap
    /\ lastTool = NoTool


(***************************************************************************)
(* Helpers shared by the handlers.                                         *)
(***************************************************************************)
Live(c) == conn[c].state \in {"open", "closing"}

\* mutant of ServerClosed: close() has no effect
ServerStaysOpen(cn) == cn

\* ws.close(): the closing handshake starts; frames already on their way
\* are still delivered until the peer answers
ServerClosed(cn) ==
    IF cn.state = "open" THEN [cn EXCEPT !.state = "closing"] ELSE cn

Started == {t \in Tasks : task[t].kind # None}

\* the next free handler invocation
FreeTask == CHOOSE t \in Tasks \ Started : \A u \in Tasks \ Started : t <= u

\* cleanupAgent(runId): close and unregister whichever agent is registered
\* under the run id, and stop whichever timer is registered under it
AgentsAfterCleanup(r) ==
    IF activeAgents[r] # 0
    THEN [agent EXCEPT ![activeAgents[r]].browser = "closed"]
    ELSE agent

CleanupAgent(r) ==
    /\ agent' = AgentsAfterCleanup(r)
    /\ activeAgents' = [activeAgents EXCEPT ![r] = 0]
    /\ timers' = timers \ {screenshotIntervals[r]}
    /\ screenshotIntervals' = [screenshotIntervals EXCEPT ![r] = 0]

\* the catch of handleAgentStart entering handleAgentError: the commands are
\* read from the agent registered under the run id, the user id from the
\* socket, and the FAILED write is issued
Caught(t, msg, how) ==
    LET r == task[t].run
        reg == activeAgents[r]
    IN  [task[t] EXCEPT
            !.pc = "writeFailed",
            !.tool = None,
            !.exit = how,
            !.wUser = conn[task[t].conn].userId,
            !.wMsg = msg,
            !.wCmds = IF reg # 0
                      THEN GetExecutedCommands(agent[reg].executedCommands)
                      ELSE << >>]

\* mutant of UpdateMatches: the update does not filter on the user id
UpdateMatchesAnyUser(r, userId) == TRUE

\* .update(updateData).eq('id', runId).eq('user_id', userId)
UpdateMatches(r, userId) == store[r].owner = userId

(***************************************************************************)
(* Connections: handleConnection, handleMessage, handleAuthentication,     *)
(* the heartbeat.                                                          *)
(***************************************************************************)
Connect(c, endpoint) ==
    /\ conn[c].state = "free"
    /\ conn' = [conn EXCEPT ![c] = [state |-> "open", endpoint |-> endpoint,
                                    userId |-> None, isAlive |-> TRUE,
                                    ticks |-> 0, ponged |-> FALSE]]
    /\ UNCHANGED <<authing, last, sent, store, task, agent, mapVars>>
    /\ UNCHANGED sideVars

\* the client goes away (or answers the closing handshake); the 'close'
\* handler of handleConnection only logs
ClientClose(c) ==
    /\ Live(c)
    /\ conn' = [conn EXCEPT ![c].state = "closed"]
    /\ UNCHANGED <<authing, last, sent, store, task, agent, mapVars>>
    /\ UNCHANGED sideVars

\* ws.on('pong'): isAlive = true
Pong(c) ==
    /\ conn[c].state = "open"
    /\ ~conn[c].isAlive
    /\ conn' = [conn EXCEPT ![c].isAlive = TRUE, ![c].ponged = TRUE]
    /\ UNCHANGED <<authing, last, sent, store, task, agent, mapVars>>
    /\ UNCHANGED sideVars

\* mutant of MissedPing: every client is taken for dead
MissedPingAlways(cn) == TRUE

\* checkClientHeartbeats: 'isAlive' in client && !client.isAlive
MissedPing(cn) == ~cn.isAlive

\* the ticks a connection has seen (history), counted up to MaxTicks
Ticked(cn) ==
    [cn EXCEPT !.ticks = IF @ < MaxTicks THEN @ + 1 ELSE @]

\* checkClientHeartbeats, over wss.clients: terminate the clients that did
\* not answer the last ping, ping the others
HeartbeatTick ==
    /\ \E c \in Conns : Live(c)
    /\ conn' = [c \in Conns |->
                  IF ~Live(c) THEN conn[c]
                  ELSE IF MissedPing(conn[c])
                       THEN [Ticked(conn[c]) EXCEPT !.state = "terminated"]
                       ELSE [Ticked(conn[c]) EXCEPT !.isAlive = FALSE]]
    /\ UNCHANGED <<authing, last, sent, store, task, agent, mapVars>>
    /\ UNCHANGED sideVars

Handled(c, msg, reply) ==
    [conn |-> c, msg |-> msg, hadUser |-> conn[c].userId # None,
     reply |-> reply]

\* handleMessage: JSON.parse (or the read of data.type) throws, the catch
\* answers
RecvMalformed(c) ==
    /\ Live(c)
    /\ last' = Handled(c, "malformed", "error: Failed to process message")
    /\ UNCHANGED <<conn, authing, sent, store, task, agent, mapVars>>
    /\ UNCHANGED sideVars

\* mutant of MustAuthenticate: every message is honoured
MustAuthenticateNever(c) == FALSE

\* handleMessage: else if (!client.userId)
MustAuthenticate(c) == conn[c].userId = None

\* handleUnauthenticatedMessage
Unauthenticated(c, msg) ==
    /\ last' = Handled(c, msg, "error: Not authenticated")
    /\ conn' = [conn EXCEPT ![c] = ServerClosed(@)]
    /\ UNCHANGED <<authing, sent, store, task, agent, mapVars>>

\* handleMessage, type authenticate: handleAuthentication up to its await
\* of authenticateUser; res is what the token will verify to
RecvAuthenticate(c, tok) ==
    /\ Live(c)
    /\ IF tok = None
       THEN /\ last' = Handled(c, "authenticate",
                               "authentication failed: No token provided")
            /\ UNCHANGED authing
       ELSE /\ authing[c] = None
            /\ authing' = [authing EXCEPT ![c] = tok]
            /\ UNCHANGED last
    /\ UNCHANGED <<conn, sent, store, task, agent, mapVars>>
    /\ UNCHANGED sideVars

\* handleAuthentication after authenticateUser: setupAuthenticatedClient or
\* handleFailedAuthentication
AuthResolves(c) ==
    /\ authing[c] # None
    /\ authing' = [authing EXCEPT ![c] = None]
    /\ IF authing[c] \in Users
       THEN /\ conn' = [conn EXCEPT ![c].userId = authing[c]]
            /\ last' = Handled(c, "authenticate", "authentication success")
       ELSE /\ conn' = [conn EXCEPT ![c] = ServerClosed(@)]
            /\ last' = Handled(c, "authenticate", "authentication failed")
    /\ UNCHANGED <<sent, store, task, agent, mapVars>>
    /\ UNCHANGED sideVars

\* handleMessage, a parsed message that is neither authenticate nor a
\* start_agent with a run id (a heartbeat, a start_agent without run id)
RecvOther(c) ==
    /\ Live(c)
    /\ IF MustAuthenticate(c)
       THEN Unauthenticated(c, "other")
       ELSE /\ last' = Handled(c, "other", None)
            /\ UNCHANGED <<conn, authing, sent, store, task, agent, mapVars>>
    /\ UNCHANGED sideVars

\* handleMessage, type start_agent with a run id: handleAgentStart up to the
\* await of fetchRunData
RecvStart(c, r) ==
    /\ Live(c)
    /\ conn[c].endpoint = "agent"
    /\ IF MustAuthenticate(c)
       THEN Unauthenticated(c, "start_agent")
       ELSE /\ last' = Handled(c, "start_agent", None)
            /\ IF conn[c].userId = None
               THEN UNCHANGED task      \* if (!ws.userId || !ws.supabase) return
               ELSE /\ Started # Tasks
                    /\ task' = [task EXCEPT ![FreeTask] =
                          [NoTask EXCEPT !.kind = "live", !.conn = c, !.run = r,
                                         !.pc = "fetch",
                                         !.wUser = conn[c].userId]]
            /\ UNCHANGED <<conn, authing, sent, store, agent, mapVars>>
    /\ UNCHANGED sideVars

(***************************************************************************)
(* handleAgentStart (agentSocket.ts), one action per await.                *)
(***************************************************************************)
At(t, pc) == task[t].kind = "live" /\ task[t].pc = pc

\* fetchRunData resolves.  ok: the select returned without error.
FetchRun(t, ok) ==
    LET r == task[t].run
        c == task[t].conn
        found == ok /\ store[r].owner = task[t].wUser
    IN
    /\ At(t, "fetch")
    /\ IF ~found
       THEN \* if (!runData) return;  finally cleanupAgent
            /\ task' = [task EXCEPT ![t].pc = "done"]
            /\ CleanupAgent(r)
            /\ UNCHANGED <<conn, sent>>
       ELSE IF Terminal(store[r].status)
       THEN \* sendExistingRunData; finally cleanupAgent
            /\ sent' = [sent EXCEPT ![t] =
                          Append(@, ExistingRun(store[r]))]
            /\ conn' = [conn EXCEPT ![c] = ServerClosed(@)]
            /\ task' = [task EXCEPT ![t].pc = "done"]
            /\ CleanupAgent(r)
       ELSE \* updateRunStatus(ws, runId, ws.userId, 'INPROGRESS', ...) issued
            /\ task' = [task EXCEPT ![t].pc = "markInProgress",
                                    ![t].wUser = conn[c].userId]
            /\ UNCHANGED <<conn, sent, agent, mapVars>>
    /\ UNCHANGED <<authing, last, store>>
    /\ UNCHANGED sideVars

\* updateRunStatus(INPROGRESS) resolves; an error is logged and swallowed.
\* Then initializeAgent: new AIBrowserAgent(), await agent.initialize()
MarkInProgress(t, ok) ==
    LET r == task[t].run IN
    /\ At(t, "markInProgress")
    /\ store' = IF ok /\ UpdateMatches(r, task[t].wUser)
                THEN [store EXCEPT ![r].status = "INPROGRESS"]
                ELSE store
    /\ task' = [task EXCEPT ![t].pc = "init"]
    /\ UNCHANGED <<connVars, sent, agent, mapVars>>
    /\ UNCHANGED sideVars

\* agent.initialize() resolves (ok) or rejects.  ok: activeAgents.set,
\* startPeriodicScreenshotUpdates, onStepUpdate, performTask up to its first
\* call of the language model
InitAgent(t, ok) ==
    LET r == task[t].run IN
    /\ At(t, "init")
    /\ IF ok
       THEN /\ agent' = [agent EXCEPT ![t].browser = "open"]
            /\ activeAgents' = [activeAgents EXCEPT ![r] = t]
            /\ timers' = timers \cup {t}
            /\ screenshotIntervals' = [screenshotIntervals EXCEPT ![r] = t]
            /\ task' = [task EXCEPT ![t].pc = "model"]
       ELSE /\ task' = [task EXCEPT ![t] = Caught(t, E_LAUNCH, "threw")]
            /\ UNCHANGED <<agent, mapVars>>
    /\ UNCHANGED <<connVars, sent, store>>
    /\ UNCHANGED sideVars

\* handleAgentError after its updateRunStatus(FAILED) resolved (an error is
\* logged and swallowed): the completion event, then the finally of
\* handleAgentStart
WriteFailed(t, ok) ==
    LET r == task[t].run
        c == task[t].conn
    IN
    /\ At(t, "writeFailed")
    /\ store' = IF ok /\ UpdateMatches(r, task[t].wUser)
                THEN [store EXCEPT ![r].status = "FAILED",
                                   ![r].steps = << >>,
                                   ![r].finalAnswer = task[t].wMsg,
                                   ![r].commands = task[t].wCmds]
                ELSE store
    /\ sent' = [sent EXCEPT ![t] =
                  Append(@, Event("completion", "failed",
                                  ok /\ UpdateMatches(r, task[t].wUser)))]
    /\ task' = [task EXCEPT ![t].pc = "done"]
    /\ CleanupAgent(r)
    /\ UNCHANGED connVars
    /\ UNCHANGED sideVars

(***************************************************************************)
(* performTask (open-ai-agent.ts): the decision loop.  agent[t].calls,     *)
(* .guidance, .dispatched, .lastText and .turn are history: the model      *)
(* calls answered, the guidance messages pushed, the tools run, the text   *)
(* of the last model turn and how that turn ended.                         *)
(***************************************************************************)
\* performTask returns (it has no return statement); handleAgentStart reads
\* result.steps of undefined, which throws into its catch
Returned(t, how) == Caught(t, E_RESULT, how)

\* mutant of LoopOrReturn: the loop has no step cap
LoopWithoutCap(t, n) == [task[t] EXCEPT !.pc = "model", !.tool = None]

\* while (stepCount < MAX_STEPS), evaluated with step count n
LoopOrReturn(t, n) ==
    IF n < MAX_STEPS
    THEN [task[t] EXCEPT !.pc = "model", !.tool = None]
    ELSE Returned(t, "maxSteps")

\* client.chat.completions.create rejects: the catch of performTask rethrows
ModelFails(t) ==
    /\ At(t, "model")
    /\ task' = [task EXCEPT ![t] = Caught(t, E_MODEL, "threw")]
    /\ UNCHANGED <<connVars, sent, store, agent, mapVars>>
    /\ UNCHANGED sideVars

\* client.chat.completions.create resolves with a text (content) and a tool
\* call (tool, None for none), up to the next await
ModelReturns(t, content, tool) ==
    LET a == [agent[t] EXCEPT !.calls = @ + 1, !.lastText = content]
        filtered == FilteredMessage(content)
    IN
    /\ At(t, "model")
    /\ IF content # << >>
       THEN IF IsRepetition(agent[t].prev_message, filtered)
            THEN \* responseValidator throws; the catch pushes the guidance
                 /\ agent' = [agent EXCEPT ![t] =
                        [a EXCEPT !.guidance = @ + 1, !.turn = "repetition"]]
                 /\ UNCHANGED task
            ELSE \* await this.removeHighlights()
                 /\ agent' = [agent EXCEPT ![t] =
                        [a EXCEPT !.prev_message = filtered,
                                  !.turn = "validated"]]
                 /\ task' = [task EXCEPT ![t].pc = "validate",
                                         ![t].tool = tool]
       ELSE IF tool # None
            THEN \* stepCount++; await this.executeAction(...)
                 /\ agent' = [agent EXCEPT ![t] =
                        [a EXCEPT !.stepCount = @ + 1, !.turn = "noText"]]
                 /\ task' = [task EXCEPT ![t].pc = "act", ![t].tool = tool]
            ELSE \* break
                 /\ agent' = [agent EXCEPT ![t] = [a EXCEPT !.turn = "noText"]]
                 /\ task' = [task EXCEPT ![t] = Returned(t, "final")]
    /\ UNCHANGED <<connVars, sent, store, mapVars>>
    /\ UNCHANGED sideVars

\* responseValidator after its page operations (ok: they did not throw)
ValidateDone(t, ok) ==
    /\ At(t, "validate")
    /\ IF ~ok \/ agent[t].browser # "open"
       THEN /\ task' = [task EXCEPT ![t] = Caught(t, E_PAGE, "threw")]
            /\ UNCHANGED agent
       ELSE IF task[t].tool = None
            THEN \* if (!response.tool_calls) break
                 /\ task' = [task EXCEPT ![t] = Returned(t, "final")]
                 /\ UNCHANGED agent
            ELSE \* stepCount++; await this.executeAction(...)
                 /\ agent' = [agent EXCEPT ![t].stepCount = @ + 1]
                 /\ task' = [task EXCEPT ![t].pc = "act"]
    /\ UNCHANGED <<connVars, sent, store, mapVars>>
    /\ UNCHANGED sideVars

\* ok: the tool ran and capturePageState returned a screenshot; noShot: the
\* tool ran and capturePageState returned null (it catches its errors)
ActionOutcomes == {"ok", "noShot", "captchaUnsolved", "toolThrows"}

\* the executeAction override that the earlier handleAgentStart installs
\* (scriptRunnerSocket.ts, second AgentWebSocketServer): after the original
\* executeAction, `if (screenshot)` send step_update with stepNumber
\* stepCount.  The handleAgentStart of agentSocket.ts installs none: it
\* sets agent.onStepUpdate, which AIBrowserAgent never calls.
StepUpdate(t, screenshot) ==
    IF task[t].override /\ screenshot
    THEN <<Event("step_update", agent[t].stepCount, FALSE)>>
    ELSE << >>

\* executeAction resolves or rejects
ExecuteAction(t, outcome) ==
    LET tool == task[t].tool IN
    /\ At(t, "act")
    /\ IF outcome = "captchaUnsolved" /\ agent[t].browser = "open"
       THEN /\ task' = [task EXCEPT ![t] = Caught(t, E_CAPTCHA, "threw")]
            /\ UNCHANGED <<agent, sent>>
       ELSE IF tool \notin KnownTools
       THEN /\ task' = [task EXCEPT ![t] = Caught(t, E_UNKNOWN, "threw")]
            /\ UNCHANGED <<agent, sent>>
       ELSE IF outcome = "toolThrows" \/ agent[t].browser # "open"
       THEN /\ task' = [task EXCEPT ![t] = Caught(t, E_TOOL, "threw")]
            /\ UNCHANGED <<agent, sent>>
       ELSE /\ agent' = [agent EXCEPT
                  ![t].executedCommands = Append(@, CommandOf(tool)),
                  ![t].dispatched = @ + 1]
            /\ sent' = [sent EXCEPT ![t] = @ \o StepUpdate(t, outcome = "ok")]
            /\ task' = [task EXCEPT ![t] = LoopOrReturn(t, agent[t].stepCount)]
    /\ UNCHANGED <<connVars, store, mapVars>>
    /\ UNCHANGED sideVars

(***************************************************************************)
(* handleScriptStart (scriptRunnerSocket.ts, ScriptRunnerWebSocketServer): *)
(* the replay of a saved automation.  Its maps are keyed by automation id. *)
(***************************************************************************)
InReplay(t, pc) == task[t].kind = "replay" /\ task[t].pc = pc

\* handleMessage, type start_script with an automation id: handleScriptStart
\* up to the await of the saved_automations select
RecvStartScript(c, a) ==
    /\ Live(c)
    /\ conn[c].endpoint = "script"
    /\ IF MustAuthenticate(c)
       THEN Unauthenticated(c, "start_script")
       ELSE /\ last' = Handled(c, "start_script", None)
            /\ IF conn[c].userId = None
               THEN UNCHANGED task      \* if (!ws.userId || !ws.supabase) return
               ELSE /\ Started # Tasks
                    /\ task' = [task EXCEPT ![FreeTask] =
                          [NoTask EXCEPT !.kind = "replay", !.conn = c,
                                         !.run = a, !.pc = "fetchScript",
                                         !.wUser = conn[c].userId]]
            /\ UNCHANGED <<conn, authing, sent, store, agent, mapVars>>
    /\ UNCHANGED sideVars

\* the outer catch and the finally of handleScriptStart, after the events
\* already sent
ScriptFailed(t, events) ==
    /\ sent' = [sent EXCEPT ![t] = @ \o events
                                     \o <<Event("failed", task[t].i, FALSE)>>]
    /\ task' = [task EXCEPT ![t].pc = "done"]
    /\ CleanupAgent(task[t].run)

\* the select resolves.  ok: one row and no error
FetchAutomation(t, ok) ==
    /\ InReplay(t, "fetchScript")
    /\ IF ok /\ saved[task[t].run].owner = task[t].wUser
       THEN /\ task' = [task EXCEPT ![t].pc = "initRunner",
                                    ![t].steps = saved[task[t].run].steps]
            /\ UNCHANGED <<sent, agent, mapVars>>
       ELSE ScriptFailed(t, << >>)
    /\ UNCHANGED <<connVars, store>>
    /\ UNCHANGED sideVars

\* the loop header of handleScriptStart for step i: step_started and the
\* await of detectCaptcha, or the code after the loop up to its first await
StepOrFinish(t, i) ==
    IF i <= Len(task[t].steps)
    THEN [task[t] EXCEPT !.pc = "detect", !.i = i, !.hasCaptcha = FALSE]
    ELSE [task[t] EXCEPT !.pc = "finalShot"]

\* mutant of StepStarted: the loop header sends nothing
StepStartedNever(t, i) == << >>

\* the loop header of handleScriptStart for step i: step_started
StepStarted(t, i) ==
    IF i <= Len(task[t].steps)
    THEN <<Event("step_started", i, FALSE)>>
    ELSE << >>

\* agent.initialize() resolves (ok) or rejects
InitRunner(t, ok) ==
    LET a == task[t].run IN
    /\ InReplay(t, "initRunner")
    /\ IF ok
       THEN /\ agent' = [agent EXCEPT ![t].browser = "open"]
            /\ activeAgents' = [activeAgents EXCEPT ![a] = t]
            /\ timers' = timers \cup {t}
            /\ screenshotIntervals' = [screenshotIntervals EXCEPT ![a] = t]
            /\ task' = [task EXCEPT ![t] = StepOrFinish(t, 1)]
            /\ sent' = [sent EXCEPT ![t] = @ \o StepStarted(t, 1)]
       ELSE ScriptFailed(t, << >>)
    /\ UNCHANGED <<connVars, store>>
    /\ UNCHANGED sideVars

\* agent.detectCaptcha() resolves; it answers false when the page fails
DetectCaptcha(t, found) ==
    LET has == found /\ agent[t].browser = "open" IN
    /\ InReplay(t, "detect")
    /\ task' = [task EXCEPT ![t].pc = "exec", ![t].hasCaptcha = has]
    /\ sent' = [sent EXCEPT ![t] =
                  IF has THEN Append(@, Event("captcha_detected", task[t].i, FALSE))
                  ELSE @]
    /\ UNCHANGED <<connVars, store, agent, mapVars>>
    /\ UNCHANGED sideVars

\* the command types of the switch of ScriptRunnerAgent.executeCommand
ReplayTypes == {"navigation", "click", "type", "typeAndEnter", "search",
                "scroll", "back", "solveCaptcha"}

\* ScriptRunnerAgent.executeCommand: the case of the command runs its tool
\* only when the fields it tests are there; otherwise it breaks silently
RunsTool(cmd) == cmd.type \in ReplayTypes /\ cmd.complete

\* mutant of Rethrown: the inner catch swallows the error
RethrownNever(threw) == FALSE

\* the inner catch of the step loop: send failed, then `throw error`
Rethrown(threw) == threw

\* agent.executeCommand(steps[i]) resolves or rejects (ok: the tool it runs
\* succeeds), then the rest of the loop body: captcha_solved when the
\* pre-check had found a CAPTCHA, step_completed, and the next loop header.
\* executedCommands records the tools that ran, threwAt the step whose
\* command rejected.
ExecuteCommand(t, ok) ==
    LET i == task[t].i
        cmd == task[t].steps[i]
        threw == \/ cmd.type \notin ReplayTypes
                 \/ RunsTool(cmd) /\ (~ok \/ agent[t].browser # "open")
    IN
    /\ InReplay(t, "exec")
    /\ IF Rethrown(threw)
       THEN /\ sent' = [sent EXCEPT ![t] =
                  @ \o <<Event("failed", i, FALSE), Event("failed", i, FALSE)>>]
            /\ task' = [task EXCEPT ![t].pc = "done", ![t].threwAt = i]
            /\ CleanupAgent(task[t].run)
       ELSE /\ sent' = [sent EXCEPT ![t] =
                  @ \o (IF task[t].hasCaptcha
                        THEN <<Event("captcha_solved", i, FALSE)>> ELSE << >>)
                    \o <<Event("step_completed", i, FALSE)>>
                    \o StepStarted(t, i + 1)]
            /\ task' = [task EXCEPT ![t] =
                  [StepOrFinish(t, i + 1) EXCEPT
                      !.threwAt = IF threw THEN i ELSE @]]
            /\ agent' = [agent EXCEPT ![t].executedCommands =
                  IF RunsTool(cmd) /\ ~threw THEN Append(@, cmd.type) ELSE @]
            /\ UNCHANGED mapVars
    /\ UNCHANGED <<connVars, store>>
    /\ UNCHANGED sideVars

ShotOutcomes == {"shot", "none", "throws"}

\* after the steps: the pause, then agent.page?.screenshot()
FinalScreenshot(t, outcome) ==
    /\ InReplay(t, "finalShot")
    /\ IF outcome = "throws" \/ agent[t].browser # "open"
       THEN ScriptFailed(t, << >>)
       ELSE /\ IF outcome = "shot"
               THEN /\ task' = [task EXCEPT ![t].pc = "analyze"]
                    /\ UNCHANGED sent
               ELSE /\ task' = [task EXCEPT ![t].pc = "linger"]
                    /\ sent' = [sent EXCEPT ![t] =
                                  Append(@, Event("completion", None, FALSE))]
            /\ UNCHANGED <<agent, mapVars>>
    /\ UNCHANGED <<connVars, store>>
    /\ UNCHANGED sideVars

\* analyzeScreenshotWithGPT resolves (it catches its errors)
Analyzed(t) ==
    /\ InReplay(t, "analyze")
    /\ task' = [task EXCEPT ![t].pc = "linger"]
    /\ sent' = [sent EXCEPT ![t] =
                  Append(@, Event("completion", None, FALSE))]
    /\ UNCHANGED <<connVars, store, agent, mapVars>>
    /\ UNCHANGED sideVars

\* the closing pause is over: finally cleanupAgent
Lingered(t) ==
    /\ InReplay(t, "linger")
    /\ task' = [task EXCEPT ![t].pc = "done"]
    /\ CleanupAgent(task[t].run)
    /\ UNCHANGED <<connVars, sent, store>>
    /\ UNCHANGED sideVars

(***************************************************************************)
(* The HTTP surface of the automations (controllers and services): every   *)
(* route runs behind authMiddleware, which gives the caller's user id.     *)
(***************************************************************************)
Response(op, caller, id, owner) ==
    [op |-> op, caller |-> caller, id |-> id, owner |-> owner]

\* the filter of getAgentRunById, getAutomationById, updateAutomation and
\* deleteAutomation: .eq('id', id) and nothing else
IdMatches(row, caller) == row.owner # None

\* getAutomationByIdController: the row with that id is the response; the
\* response records whose row was read
GetAutomationById(u, a) ==
    /\ resp' = Response("get", u, a,
                        IF IdMatches(saved[a], u) THEN saved[a].owner
                        ELSE None)
    /\ UNCHANGED <<conn, authing, last, sent, store, task, agent, mapVars,
                   saved, page, shots, cap, lastTool>>

\* the steps a request body of updateAutomation may carry
BodySteps == {<<Cmd("scroll", TRUE)>>}

\* updateAutomationController: the row with the id of the body gets the
\* fields of the body, user_id included
UpdateAutomation(u, a, owner, steps) ==
    /\ saved' = IF IdMatches(saved[a], u)
                THEN [saved EXCEPT ![a] = [owner |-> owner, steps |-> steps]]
                ELSE saved
    /\ resp' = Response("update", u, a,
                        IF IdMatches(saved[a], u) THEN saved[a].owner
                        ELSE None)
    /\ UNCHANGED <<conn, authing, last, sent, store, task, agent, mapVars,
                   page, shots, cap, lastTool>>

\* deleteAutomationController
DeleteAutomation(u, a) ==
    /\ saved' = IF IdMatches(saved[a], u)
                THEN [saved EXCEPT ![a] = NoRow]
                ELSE saved
    /\ resp' = Response("delete", u, a,
                        IF IdMatches(saved[a], u) THEN saved[a].owner
                        ELSE None)
    /\ UNCHANGED <<conn, authing, last, sent, store, task, agent, mapVars,
                   page, shots, cap, lastTool>>

\* the ids of saved_automations without row
FreeIds == {a \in Automations : saved[a] = NoRow}

\* createAutomationController: getAgentRunById(agentRunId), then
\* createAutomation inserts a row of the caller with the commands of that
\* run (`agentRunObject.commands || []`) as its steps
CreateAutomation(u, r) ==
    /\ FreeIds # {}
    /\ IdMatches(store[r], u)
    /\ LET a == CHOOSE x \in FreeIds : TRUE
           commands == IF store[r].commands = None THEN << >>
                       ELSE store[r].commands
       IN  saved' = [saved EXCEPT ![a] = [owner |-> u, steps |-> commands]]
    /\ resp' = Response("create", u, r, store[r].owner)
    /\ UNCHANGED <<conn, authing, last, sent, store, task, agent, mapVars,
                   page, shots, cap, lastTool>>

(***************************************************************************)
(* The periodic screenshots of a replay session.                           *)
(***************************************************************************)
\* the setInterval callback of startPeriodicScreenshotUpdates runs: it calls
\* agent.page?.screenshot() and awaits it; nothing is tested before the call
PumpTick(t) ==
    /\ t \in timers
    /\ shots[t].ticks < MaxPumpTicks
    /\ shots' = [shots EXCEPT ![t].inFlight = @ + 1, ![t].ticks = @ + 1]
    /\ UNCHANGED <<connVars, sent, store, task, agent, mapVars, saved, resp,
                   page, cap, lastTool>>

\* the screenshot of a callback resolves with a frame (screenshot_update is
\* sent), resolves with none, or rejects (caught and logged)
PumpShot(t, outcome) ==
    /\ shots[t].inFlight > 0
    /\ shots' = [shots EXCEPT ![t].inFlight = @ - 1]
    /\ sent' = [sent EXCEPT ![t] =
                  IF outcome = "shot" /\ agent[t].browser = "open"
                  THEN Append(@, Event("screenshot_update", None, FALSE))
                  ELSE @]
    /\ UNCHANGED <<connVars, store, task, agent, mapVars, saved, resp, page,
                   cap, lastTool>>

\* the handler of the session awaits a command whose tool drives the page
ToolInFlight(t) ==
    /\ InReplay(t, "exec")
    /\ agent[t].browser = "open"
    /\ RunsTool(task[t].steps[task[t].i])

(***************************************************************************)
(* CaptchaSolverTool.run and its strategies.                               *)
(***************************************************************************)
sessionVars == <<connVars, sent, store, task, agent, mapVars>>

maxAttempts == 5

\* what a click on the checkbox, on verify or on submit does to the page
Effects == {"gone", "checked", "still"}

After(cp, effect) ==
    [cp EXCEPT !.present = IF effect = "gone" THEN FALSE ELSE @,
               !.checked = IF effect = "checked" THEN TRUE ELSE @]

\* checkSuccess: no element detected, or the anchor frame is found and its
\* checkbox is aria-checked
checkSuccess(cp, frame) == ~cp.present \/ (frame /\ cp.checked)

\* mutant of AfterFailed: hCaptcha is skipped
AfterFailedSkips(strategy) ==
    IF strategy = "reCAPTCHA" THEN "text" ELSE "done"

\* run(): where it goes when a strategy returned false
AfterFailed(strategy) ==
    CASE strategy = "reCAPTCHA" -> "hcaptcha"
      [] strategy = "hCaptcha" -> "text"
      [] OTHER -> "done"

\* run(): a strategy returns
StrategyReturned(cp, strategy, solved) ==
    LET tried == Append(cp.tried, [strategy |-> strategy, solved |-> solved])
    IN  IF solved
        THEN [cp EXCEPT !.pc = "done", !.tried = tried, !.result = "solved"]
        ELSE [cp EXCEPT !.pc = AfterFailed(strategy), !.tried = tried,
                        !.result = IF AfterFailed(strategy) = "done"
                                   THEN "unable" ELSE @]

\* run() up to solveReCaptcha: detectCaptcha
RunCaptcha ==
    /\ cap.pc = "idle"
    /\ cap' = IF cap.present THEN [cap EXCEPT !.pc = "anchor"]
              ELSE [cap EXCEPT !.pc = "done", !.result = "none"]
    /\ UNCHANGED <<sessionVars, saved, resp, page, shots, lastTool>>

\* solveReCaptcha steps 1-3: the anchor frame and checkbox (found), the
\* click, the detection after it and the aria-checked test
ClickCheckbox(found, effect) ==
    LET cp == After(cap, effect) IN
    /\ cap.pc = "anchor"
    /\ cap' = IF ~found THEN StrategyReturned(cap, "reCAPTCHA", FALSE)
              ELSE IF ~cp.present \/ cp.checked
              THEN StrategyReturned(cp, "reCAPTCHA", TRUE)
              ELSE [cp EXCEPT !.pc = "challenge"]
    /\ UNCHANGED <<sessionVars, saved, resp, page, shots, lastTool>>

\* solveReCaptcha step 4: the challenge frame
FindChallenge(found) ==
    /\ cap.pc = "challenge"
    /\ cap' = IF found THEN [cap EXCEPT !.pc = "attempt", !.attempts = 0]
              ELSE StrategyReturned(cap, "reCAPTCHA", FALSE)
    /\ UNCHANGED <<sessionVars, saved, resp, page, shots, lastTool>>

\* the header of while (attempts < maxAttempts) and the instructions of
\* the challenge: none, a single selection, or a continuous task
Attempt(instructions, frame) ==
    /\ cap.pc = "attempt"
    /\ cap' = IF cap.attempts >= maxAttempts \/ instructions = "none"
              THEN StrategyReturned(cap, "reCAPTCHA", checkSuccess(cap, frame))
              ELSE [cap EXCEPT !.pc = IF instructions = "continuous"
                                      THEN "round" ELSE "single",
                               !.continuous = instructions = "continuous"]
    /\ UNCHANGED <<sessionVars, saved, resp, page, shots, lastTool>>

\* the end of an outer attempt: attempts++
NextAttempt(cp) == [cp EXCEPT !.pc = "attempt", !.attempts = @ + 1]

\* one pass of while (isContinuousTask && !continuousAttemptComplete) up to
\* the verify click: the tiles and the selection of the vision model
Round(tiles, selected, frame) ==
    /\ cap.pc = "round"
    /\ cap' = IF tiles
              THEN [cap EXCEPT !.pc = "verify", !.selected = selected,
                               !.rounds = IF @ < MaxRounds THEN @ + 1 ELSE @]
              ELSE IF checkSuccess(cap, frame)
              THEN StrategyReturned(cap, "reCAPTCHA", TRUE)
              ELSE NextAttempt(cap)
    /\ UNCHANGED <<sessionVars, saved, resp, page, shots, lastTool>>

\* the body of if (!isContinuousTask) up to the verify click
Single(tiles, selected, frame, again) ==
    /\ cap.pc = "single"
    /\ cap' = IF tiles
              THEN [cap EXCEPT !.pc = "verify", !.selected = selected]
              ELSE IF checkSuccess(cap, frame)
              THEN StrategyReturned(cap, "reCAPTCHA", TRUE)
              ELSE StrategyReturned(cap, "reCAPTCHA", checkSuccess(cap, again))
    /\ UNCHANGED <<sessionVars, saved, resp, page, shots, lastTool>>

\* the tiles are clicked, clickVerifyButton, checkSuccess: return true, the
\* next outer attempt, or (continuous task with a selection) the next pass
Verify(effect, frame) ==
    LET cp == After(cap, effect) IN
    /\ cap.pc = "verify"
    /\ cap' = IF checkSuccess(cp, frame) THEN StrategyReturned(cp, "reCAPTCHA", TRUE)
              ELSE IF cap.continuous /\ cap.selected
              THEN [cp EXCEPT !.pc = "round"]
              ELSE NextAttempt(cp)
    /\ UNCHANGED <<sessionVars, saved, resp, page, shots, lastTool>>

\* solveHCaptcha: true when .checkbox.checked is found after the click
SolveHCaptcha(outcome) ==
    /\ cap.pc = "hcaptcha"
    /\ cap' = StrategyReturned(cap, "hCaptcha", outcome = "checked")
    /\ UNCHANGED <<sessionVars, saved, resp, page, shots, lastTool>>

\* solveTextCaptcha: true when the solution was submitted and detectCaptcha
\* finds nothing afterwards
SolveTextCaptcha(outcome) ==
    /\ cap.pc = "text"
    /\ cap' = IF outcome = "noField" THEN StrategyReturned(cap, "text", FALSE)
              ELSE StrategyReturned(After(cap, outcome), "text", outcome = "gone")
    /\ UNCHANGED <<sessionVars, saved, resp, page, shots, lastTool>>

(***************************************************************************)
(* ClickTool and TypingWithEnterTool.  The text of an element is what the  *)
(* lookups read: textContent || value || aria-label || title ||            *)
(* placeholder, already trimmed; the elements of kind hidden are matched   *)
(* by the standard selectors and are not highlighted.                      *)
(***************************************************************************)
\* String.prototype.toLowerCase
ToLowerCase(s) == [i \in 1..Len(s) |-> IF s[i] = "A" THEN "a" ELSE s[i]]

\* String.prototype.includes
Includes(s, sub) ==
    \E i \in 1..(Len(s) - Len(sub) + 1) : SubSeq(s, i, i + Len(sub) - 1) = sub

\* /^\d+$/.test(identifier)
IsNumeric(s) == s # << >> /\ \A i \in 1..Len(s) : s[i] \in {"1", "2", "3", "4"}

\* index.toString() of a label
IndexToString(n) == <<CASE n = 1 -> "1" [] n = 2 -> "2" [] n = 3 -> "3" [] OTHER -> "4">>

\* mutant of ExactMatches: the first pass accepts substrings
ExactMatchesLoose(p, among, text) ==
    {e \in among : p.text[e] # << >>
                     /\ Includes(ToLowerCase(p.text[e]), ToLowerCase(text))}

\* elementText.toLowerCase() === text.toLowerCase()
ExactMatches(p, among, text) ==
    {e \in among : p.text[e] # << >>
                     /\ ToLowerCase(p.text[e]) = ToLowerCase(text)}

\* elementText.toLowerCase().includes(text.toLowerCase())
PartialMatches(p, among, text) ==
    {e \in among : p.text[e] # << >>
                     /\ Includes(ToLowerCase(p.text[e]), ToLowerCase(text))}

\* the first element of a pass, in document order; 0 when there is none
FirstOf(es) == IF es = {} THEN 0 ELSE CHOOSE e \in es : \A x \in es : e <= x

\* the elements the standard selectors match
StandardElements(p) == {e \in DOMAIN p.kind : p.kind[e] \in {"named", "hidden"}}

\* findClickableElement: the four passes
findClickableElement(p, text) ==
    IF text = << >> THEN [element |-> 0, by |-> None]
    ELSE IF ExactMatches(p, p.cls, text) # {}
    THEN [element |-> FirstOf(ExactMatches(p, p.cls, text)), by |-> "exact"]
    ELSE IF PartialMatches(p, p.cls, text) # {}
    THEN [element |-> FirstOf(PartialMatches(p, p.cls, text)), by |-> "partial"]
    ELSE IF ExactMatches(p, StandardElements(p), text) # {}
    THEN [element |-> FirstOf(ExactMatches(p, StandardElements(p), text)),
          by |-> "standard"]
    ELSE IF PartialMatches(p, StandardElements(p), text) # {}
    THEN [element |-> FirstOf(PartialMatches(p, StandardElements(p), text)),
          by |-> "standard"]
    ELSE [element |-> 0, by |-> None]

\* findElementByLabel: the first label with that text whose position is the
\* one of a highlighted element
findElementByLabel(p, label) ==
    LET ks == {k \in 1..Len(p.labels) :
                  IndexToString(p.labels[k].text) = label /\ p.labels[k].at \in p.cls}
    IN  IF ks = {} THEN [element |-> 0, by |-> None]
        ELSE [element |-> p.labels[FirstOf(ks)].at, by |-> "label"]

\* ClickTool.run(identifier); ok: element.click() resolves
Click(identifier, ok) ==
    LET byText == findClickableElement(page, identifier)
        found == IF byText.element = 0 /\ IsNumeric(identifier)
                 THEN findElementByLabel(page, identifier)
                 ELSE byText
    IN
    /\ lastTool' = [name |-> "handle_click", identifier |-> identifier,
                element |-> found.element, by |-> found.by, attempts |-> 1,
                result |-> IF found.element # 0 /\ ok THEN "success" ELSE "error",
                at |-> Len(page.ops)]
    /\ UNCHANGED <<sessionVars, saved, resp, page, shots, cap>>

\* TypingWithEnterTool.run: findInputField (found), then the click, the
\* keys and Enter (ok); any error is logged and thrown again
TypeWithEnter(found, ok) ==
    /\ lastTool' = [NoTool EXCEPT !.name = "handle_typing_with_enter",
                              !.attempts = 1,
                              !.result = IF found /\ ok THEN "success" ELSE "error",
                              !.at = Len(page.ops)]
    /\ UNCHANGED <<sessionVars, saved, resp, page, shots, cap>>

(***************************************************************************)
(* The annotation scripts, evaluated by page.evaluate in the document.     *)
(***************************************************************************)
\* the elements the forEach of HIGHLIGHT_ELEMENTS_SCRIPT marks, given the
\* data-highlighted attributes left after its removal pass
Marked(p, data) == {e \in Elements : p.kind[e] \in {"named", "bare"} /\ e \notin data}

RECURSIVE LabelsFrom(_, _, _)
\* createAndAdjustLabel over the marked elements from e on, in document
\* order: numberIndex counts every marked element, a label is made for
\* those without identifier
LabelsFrom(p, marked, e) ==
    IF e > MaxElements THEN << >>
    ELSE (IF e \in marked /\ p.kind[e] = "bare"
          THEN <<[text |-> Cardinality({x \in marked : x <= e}), at |-> e]>>
          ELSE << >>) \o LabelsFrom(p, marked, e + 1)

\* mutant of LabelsRemoved: the previous labels are kept
LabelsKept(labels) == labels

\* "Remove previous labels": every .highlight-label is removed
LabelsRemoved(labels) == << >>

\* HIGHLIGHT_ELEMENTS_SCRIPT run to its end on document p
Annotated(p) ==
    LET data == p.data \ p.cls
        marked == Marked(p, data)
    IN  [p EXCEPT !.cls = marked,
                  !.data = data \cup marked,
                  !.labels = LabelsRemoved(p.labels) \o LabelsFrom(p, marked, 1),
                  !.styles = IF p.styles = 0 THEN 1 ELSE p.styles]

\* REMOVE_HIGHLIGHTS_SCRIPT run to its end on document p
Cleared(p) == [p EXCEPT !.labels = << >>, !.styles = 0]

\* page.evaluate(script) resolves or rejects.  The scripts declare const at
\* their top level; evaluated again in a document where the declaration
\* exists, the evaluation is rejected with "Identifier has already been
\* declared" before anything ran, where the browser rejects the
\* redeclaration (page.strict).
Evaluate(script) ==
    /\ Len(page.ops) < MaxOps
    /\ page' = [(IF page.strict /\ script \in page.declared THEN page
                 ELSE IF script = "annotate" THEN Annotated(page)
                 ELSE Cleared(page))
                   EXCEPT !.declared = @ \cup {script},
                          !.ops = Append(@, script)]
    /\ UNCHANGED <<conn, authing, last, sent, store, task, agent, mapVars,
                   saved, resp, shots, cap, lastTool>>

\* highlightClickableElements
Annotate == Evaluate("annotate")

\* removeHighlights
Clear == Evaluate("clear")

(***************************************************************************)
(* The session specification: the server after construction, one client    *)
(* that connects, authenticates and sends messages; the language model     *)
(* of the runs it starts is unreachable.                                   *)
(***************************************************************************)
AuthConns == {"c1"}
AuthAutomations == {"a1"}

NextAuth ==
    \/ \E c \in AuthConns, endpoint \in Endpoints : Connect(c, endpoint)
    \/ \E c \in AuthConns : ClientClose(c)
    \/ \E c \in AuthConns : RecvMalformed(c)
    \/ \E c \in AuthConns, tok \in AuthResults \cup {None} :
          RecvAuthenticate(c, tok)
    \/ \E c \in AuthConns : AuthResolves(c)
    \/ \E c \in AuthConns : RecvOther(c)
    \/ \E c \in AuthConns, r \in Runs : RecvStart(c, r)
    \/ \E c \in AuthConns, a \in AuthAutomations : RecvStartScript(c, a)
    \/ \E t \in Tasks, ok \in BOOLEAN : FetchAutomation(t, ok)
    \/ \E t \in Tasks, ok \in BOOLEAN : InitRunner(t, ok)
    \/ \E t \in Tasks, found \in BOOLEAN : DetectCaptcha(t, found)
    \/ \E t \in Tasks, ok \in BOOLEAN : ExecuteCommand(t, ok)
    \/ \E t \in Tasks, outcome \in ShotOutcomes : FinalScreenshot(t, outcome)
    \/ \E t \in Tasks : Analyzed(t)
    \/ \E t \in Tasks : Lingered(t)
    \/ \E t \in Tasks, ok \in BOOLEAN : FetchRun(t, ok)
    \/ \E t \in Tasks, ok \in BOOLEAN : MarkInProgress(t, ok)
    \/ \E t \in Tasks, ok \in BOOLEAN : InitAgent(t, ok)
    \/ \E t \in Tasks : ModelFails(t)
    \/ \E t \in Tasks, ok \in BOOLEAN : WriteFailed(t, ok)

SpecAuth == Init /\ [][NextAuth]_vars

(***************************************************************************)
(* The heartbeat specification: the server after construction, clients     *)
(* that connect to either endpoint, answer pings or not, and leave.        *)
(***************************************************************************)
NextBeat ==
    \/ \E c \in Conns, endpoint \in Endpoints : Connect(c, endpoint)
    \/ \E c \in Conns : ClientClose(c)
    \/ \E c \in Conns : Pong(c)
    \/ HeartbeatTick

SpecBeat == Init /\ [][NextBeat]_vars

(***************************************************************************)
(* The HTTP specification: the two users call the automation routes.       *)
(***************************************************************************)
NextHttp ==
    \/ \E u \in Users, a \in Automations : GetAutomationById(u, a)
    \/ \E u \in Users, a \in Automations, owner \in Users,
           steps \in BodySteps : UpdateAutomation(u, a, owner, steps)
    \/ \E u \in Users, a \in Automations : DeleteAutomation(u, a)
    \/ \E u \in Users, r \in Runs : CreateAutomation(u, r)

SpecHttp == Init /\ [][NextHttp]_vars

(***************************************************************************)
(* The annotation specification: any document of MaxElements elements, in  *)
(* a browser that rejects or allows the redeclaration, annotated and       *)
(* cleared in any order.                                                   *)
(***************************************************************************)
InitPage ==
    /\ conn = [c \in Conns |-> NoConn]
    /\ authing = [c \in Conns |-> None]
    /\ last = NoLast
    /\ sent = [t \in Tasks |-> << >>]
    /\ store = [r \in Runs |-> NewRun("u1")]
    /\ task = [t \in Tasks |-> NoTask]
    /\ agent = [t \in Tasks |-> NoAgent]
    /\ activeAgents = [r \in Ids |-> 0]
    /\ screenshotIntervals = [r \in Ids |-> 0]
    /\ timers = {}
    /\ saved = SavedAutomations
    /\ resp = NoResp
    /\ page \in {[FreshPage(kind) EXCEPT !.strict = strict] :
                    kind \in [Elements -> Kinds], strict \in BOOLEAN}
    /\ shots = NoShots
    /\ cap = NoCap
    /\ lastTool = NoTool

NextPage ==
    \/ Annotate
    \/ Clear

SpecPage == InitPage /\ [][NextPage]_vars

(***************************************************************************)
(* The replay specification: one client authenticated on /automation that  *)
(* starts replays of the saved automations.                                *)
(***************************************************************************)
InitReplay ==
    /\ conn = [c \in Conns |->
                 IF c = "c1"
                 THEN [NoConn EXCEPT !.state = "open", !.endpoint = "script",
                                     !.userId = "u1", !.isAlive = TRUE]
                 ELSE NoConn]
    /\ authing = [c \in Conns |-> None]
    /\ last = NoLast
    /\ sent = [t \in Tasks |-> << >>]
    /\ store = [r \in Runs |-> NewRun("u1")]
    /\ task = [t \in Tasks |-> NoTask]
    /\ agent = [t \in Tasks |-> NoAgent]
    /\ activeAgents = [r \in Ids |-> 0]
    /\ screenshotIntervals = [r \in Ids |-> 0]
    /\ timers = {}
    /\ saved = SavedAutomations
    /\ resp = NoResp
    /\ page = FreshPage([e \in Elements |-> "plain"])
    /\ shots = NoShots
    /\ cap = NoCap
    /\ lastTool = NoTool

NextReplay ==
    \/ \E a \in Automations : RecvStartScript("c1", a)
    \/ \E t \in Tasks, ok \in BOOLEAN : FetchAutomation(t, ok)
    \/ \E t \in Tasks, ok \in BOOLEAN : InitRunner(t, ok)
    \/ \E t \in Tasks, found \in BOOLEAN : DetectCaptcha(t, found)
    \/ \E t \in Tasks, ok \in BOOLEAN : ExecuteCommand(t, ok)
    \/ \E t \in Tasks, outcome \in ShotOutcomes : FinalScreenshot(t, outcome)
    \/ \E t \in Tasks : Analyzed(t)
    \/ \E t \in Tasks : Lingered(t)

SpecReplay == InitReplay /\ [][NextReplay]_vars

(***************************************************************************)
(* The CAPTCHA specification: one run() of the solver on a page with or    *)
(* without a qualifying element.                                           *)
(***************************************************************************)
InitCaptcha ==
    /\ conn = [c \in Conns |-> NoConn]
    /\ authing = [c \in Conns |-> None]
    /\ last = NoLast
    /\ sent = [t \in Tasks |-> << >>]
    /\ store = [r \in Runs |-> NewRun("u1")]
    /\ task = [t \in Tasks |-> NoTask]
    /\ agent = [t \in Tasks |-> NoAgent]
    /\ activeAgents = [r \in Ids |-> 0]
    /\ screenshotIntervals = [r \in Ids |-> 0]
    /\ timers = {}
    /\ saved = SavedAutomations
    /\ resp = NoResp
    /\ page = FreshPage([e \in Elements |-> "plain"])
    /\ shots = NoShots
    /\ cap \in {[NoCap EXCEPT !.present = present] : present \in BOOLEAN}
    /\ lastTool = NoTool

NextCaptcha ==
    \/ RunCaptcha
    \/ \E found \in BOOLEAN, effect \in Effects : ClickCheckbox(found, effect)
    \/ \E found \in BOOLEAN : FindChallenge(found)
    \/ \E instructions \in {"none", "single", "continuous"},
          frame \in BOOLEAN : Attempt(instructions, frame)
    \/ \E tiles, selected, frame \in BOOLEAN : Round(tiles, selected, frame)
    \/ \E tiles, selected, frame, again \in BOOLEAN :
          Single(tiles, selected, frame, again)
    \/ \E effect \in Effects, frame \in BOOLEAN : Verify(effect, frame)
    \/ \E outcome \in {"noFrame", "checked", "unchecked"} :
          SolveHCaptcha(outcome)
    \/ \E outcome \in {"noField", "gone", "still"} : SolveTextCaptcha(outcome)

SpecCaptcha == InitCaptcha /\ [][NextCaptcha]_vars

\* every await of run() resolves or rejects in the end
SpecCaptchaFair == SpecCaptcha /\ WF_vars(NextCaptcha)

(***************************************************************************)
(* The tools specification: a document whose clickable elements carry      *)
(* texts, annotated, on which the click and typing tools run.              *)
(***************************************************************************)
ElementTexts == {<<"a">>, <<"A">>, <<"a", "b">>, <<"1">>}
Identifiers == {<<"a">>, <<"A">>, <<"b">>, <<"1">>, <<"2">>}

\* the elements with a text are those of kind named or hidden
TextedPages ==
    {[FreshPage(kind) EXCEPT !.text = text] :
        kind \in [Elements -> Kinds], text \in [Elements -> ElementTexts \cup {<< >>}]}

InitTools ==
    /\ conn = [c \in Conns |-> NoConn]
    /\ authing = [c \in Conns |-> None]
    /\ last = NoLast
    /\ sent = [t \in Tasks |-> << >>]
    /\ store = [r \in Runs |-> NewRun("u1")]
    /\ task = [t \in Tasks |-> NoTask]
    /\ agent = [t \in Tasks |-> NoAgent]
    /\ activeAgents = [r \in Ids |-> 0]
    /\ screenshotIntervals = [r \in Ids |-> 0]
    /\ timers = {}
    /\ saved = SavedAutomations
    /\ resp = NoResp
    /\ page \in {p \in TextedPages :
                    \A e \in Elements :
                        p.text[e] # << >> <=> p.kind[e] \in {"named", "hidden"}}
    /\ shots = NoShots
    /\ cap = NoCap
    /\ lastTool = NoTool

NextTools ==
    \/ Annotate
    \/ \E identifier \in Identifiers, ok \in BOOLEAN : Click(identifier, ok)
    \/ \E found, ok \in BOOLEAN : TypeWithEnter(found, ok)

SpecTools == InitTools /\ [][NextTools]_vars

(***************************************************************************)
(* The pump specification: replays of the saved automation a1 with the     *)
(* callbacks of the screenshot timer of the first one.                     *)
(***************************************************************************)
\* the sessions whose timer callbacks are followed
PumpTasks == {1}

NextPump ==
    \/ RecvStartScript("c1", "a1")
    \/ \E t \in Tasks, ok \in BOOLEAN : FetchAutomation(t, ok)
    \/ \E t \in Tasks, ok \in BOOLEAN : InitRunner(t, ok)
    \/ \E t \in Tasks, found \in BOOLEAN : DetectCaptcha(t, found)
    \/ \E t \in Tasks, ok \in BOOLEAN : ExecuteCommand(t, ok)
    \/ \E t \in Tasks, outcome \in ShotOutcomes : FinalScreenshot(t, outcome)
    \/ \E t \in Tasks : Analyzed(t)
    \/ \E t \in Tasks : Lingered(t)
    \/ \E t \in PumpTasks : PumpTick(t)
    \/ \E t \in PumpTasks, outcome \in ShotOutcomes : PumpShot(t, outcome)

SpecPump == InitReplay /\ [][NextPump]_vars

(***************************************************************************)
(* The supervisor specification: two authenticated sessions of one user,   *)
(* the start handler and a short decision loop.                            *)
(***************************************************************************)
SupTexts == {<< >>, <<"a">>}
SupTools == {None, "handle_click"}
SupOutcomes == {"ok", "toolThrows"}

InitSup ==
    /\ conn = [c \in Conns |->
                 [state |-> "open", endpoint |-> "agent", userId |-> "u1",
                  isAlive |-> TRUE, ticks |-> 0, ponged |-> FALSE]]
    /\ authing = [c \in Conns |-> None]
    /\ last = [conn |-> "c1", msg |-> "authenticate", hadUser |-> FALSE,
               reply |-> "authentication success"]
    /\ sent = [t \in Tasks |-> << >>]
    /\ store = [r \in Runs |-> NewRun("u1")]
    /\ task = [t \in Tasks |-> NoTask]
    /\ agent = [t \in Tasks |-> NoAgent]
    /\ activeAgents = [r \in Ids |-> 0]
    /\ screenshotIntervals = [r \in Ids |-> 0]
    /\ timers = {}
    /\ saved = SavedAutomations
    /\ resp = NoResp
    /\ page = FreshPage([e \in Elements |-> "plain"])
    /\ shots = NoShots
    /\ cap = NoCap
    /\ lastTool = NoTool

NextSup ==
    \/ \E c \in Conns : ClientClose(c)
    \/ \E c \in Conns, r \in Runs : RecvStart(c, r)
    \/ \E t \in Tasks, ok \in BOOLEAN : FetchRun(t, ok)
    \/ \E t \in Tasks, ok \in BOOLEAN : MarkInProgress(t, ok)
    \/ \E t \in Tasks, ok \in BOOLEAN : InitAgent(t, ok)
    \/ \E t \in Tasks : ModelFails(t)
    \/ \E t \in Tasks, content \in SupTexts, tool \in SupTools :
          agent[t].calls < MaxSupCalls /\ ModelReturns(t, content, tool)
    \/ \E t \in Tasks, ok \in BOOLEAN : ValidateDone(t, ok)
    \/ \E t \in Tasks, outcome \in SupOutcomes : ExecuteAction(t, outcome)
    \/ \E t \in Tasks, ok \in BOOLEAN : WriteFailed(t, ok)

Spec == InitSup /\ [][NextSup]_vars

(***************************************************************************)
(* The decision-loop specification: one live run whose handler has         *)
(* reached performTask, followed through the whole step budget.            *)
(***************************************************************************)
LoopTexts == {<< >>, <<"a">>}
LoopTools == {None, "handle_click", "handle_scroll"}

InitLoop ==
    /\ conn = [c \in Conns |->
                 IF c = "c1"
                 THEN [state |-> "open", endpoint |-> "agent", userId |-> "u1",
                       isAlive |-> TRUE, ticks |-> 0, ponged |-> FALSE]
                 ELSE NoConn]
    /\ authing = [c \in Conns |-> None]
    /\ last = [conn |-> "c1", msg |-> "start_agent", hadUser |-> TRUE,
               reply |-> None]
    /\ sent = [t \in Tasks |-> << >>]
    /\ store = [r \in Runs |-> [NewRun("u1") EXCEPT !.status = "INPROGRESS"]]
    /\ task = [t \in Tasks |->
                 IF t = 1
                 THEN [NoTask EXCEPT !.kind = "live", !.conn = "c1",
                                     !.run = "r1", !.pc = "model",
                                     !.wUser = "u1"]
                 ELSE NoTask]
    /\ agent = [t \in Tasks |->
                  IF t = 1 THEN [NoAgent EXCEPT !.browser = "open"]
                  ELSE NoAgent]
    /\ activeAgents = [r \in Ids |-> IF r = "r1" THEN 1 ELSE 0]
    /\ screenshotIntervals = [r \in Ids |-> IF r = "r1" THEN 1 ELSE 0]
    /\ timers = {1}
    /\ saved = SavedAutomations
    /\ resp = NoResp
    /\ page = FreshPage([e \in Elements |-> "plain"])
    /\ shots = NoShots
    /\ cap = NoCap
    /\ lastTool = NoTool

NextLoop ==
    \/ \E t \in Tasks : ModelFails(t)
    \/ \E t \in Tasks, content \in LoopTexts, tool \in LoopTools :
          agent[t].calls < MaxLoopCalls /\ ModelReturns(t, content, tool)
    \/ \E t \in Tasks, ok \in BOOLEAN : ValidateDone(t, ok)
    \/ \E t \in Tasks, outcome \in ActionOutcomes : ExecuteAction(t, outcome)
    \/ \E t \in Tasks, ok \in BOOLEAN : WriteFailed(t, ok)

SpecLoop == InitLoop /\ [][NextLoop]_vars

(***************************************************************************)
(* The response-text specification: the same run, with every text over     *)
(* the alphabet as a model response.                                       *)
(***************************************************************************)
TextTools == {None, "handle_click", "handle_captcha"}

NextText ==
    \/ \E t \in Tasks : ModelFails(t)
    \/ \E t \in Tasks, content \in Texts, tool \in TextTools :
          agent[t].calls < MaxTextCalls /\ ModelReturns(t, content, tool)
    \/ \E t \in Tasks, ok \in BOOLEAN : ValidateDone(t, ok)
    \/ \E t \in Tasks, outcome \in ActionOutcomes : ExecuteAction(t, outcome)
    \/ \E t \in Tasks, ok \in BOOLEAN : WriteFailed(t, ok)

SpecText == InitLoop /\ [][NextText]_vars

(***************************************************************************)
(* The step-update specification: the decision loops of two runs started   *)
(* on one session by the earlier handleAgentStart, which installs the      *)
(* executeAction override (nothing on a session serialises its handlers:   *)
(* ws.on('message') does not await them).                                  *)
(***************************************************************************)
StepTexts == {<< >>, <<"a">>}
StepTools == {None, "handle_click"}

InitSteps ==
    /\ conn = [c \in Conns |->
                 IF c = "c1"
                 THEN [NoConn EXCEPT !.state = "open", !.endpoint = "agent",
                                     !.userId = "u1", !.isAlive = TRUE]
                 ELSE NoConn]
    /\ authing = [c \in Conns |-> None]
    /\ last = [conn |-> "c1", msg |-> "start_agent", hadUser |-> TRUE,
               reply |-> None]
    /\ sent = [t \in Tasks |-> << >>]
    /\ store = [r \in Runs |-> [NewRun("u1") EXCEPT !.status = "INPROGRESS"]]
    /\ task = [t \in Tasks |->
                 [NoTask EXCEPT !.kind = "live", !.conn = "c1", !.run = "r1",
                                !.pc = "model", !.wUser = "u1",
                                !.override = TRUE]]
    /\ agent = [t \in Tasks |-> [NoAgent EXCEPT !.browser = "open"]]
    /\ activeAgents = [r \in Ids |-> IF r = "r1" THEN MaxTasks ELSE 0]
    /\ screenshotIntervals = [r \in Ids |-> 0]
    /\ timers = {}
    /\ saved = SavedAutomations
    /\ resp = NoResp
    /\ page = FreshPage([e \in Elements |-> "plain"])
    /\ shots = NoShots
    /\ cap = NoCap
    /\ lastTool = NoTool

NextSteps ==
    \/ \E t \in Tasks : ModelFails(t)
    \/ \E t \in Tasks, content \in StepTexts, tool \in StepTools :
          agent[t].calls < MaxStepCalls /\ ModelReturns(t, content, tool)
    \/ \E t \in Tasks, ok \in BOOLEAN : ValidateDone(t, ok)
    \/ \E t \in Tasks, outcome \in ActionOutcomes : ExecuteAction(t, outcome)

SpecSteps == InitSteps /\ [][NextSteps]_vars

TypeOK ==
    /\ \A c \in Conns :
          conn[c].state \in {"free", "open", "closing", "closed", "terminated"}
    /\ \A t \in Tasks : agent[t].stepCount \in 0..MAX_STEPS

(***************************************************************************)
(* Properties.                                                             *)
(***************************************************************************)
ParsedControl == {"other", "start_agent", "start_script"}

\* C1 (as amended): on both endpoints a handler invocation (the only place
\* the store is accessed and a browser launched) exists only on a
\* connection whose user id was set by a successful authenticate, and a
\* parsed message of another type than authenticate that arrives while the
\* connection has no user id is answered with the error "Not authenticated"
\* and the connection is closed by the server.
C1_AuthenticatedBeforeControl ==
    /\ \A t \in Started : conn[task[t].conn].userId # None
    /\ (last.msg \in ParsedControl /\ ~last.hadUser)
          => /\ last.reply = "error: Not authenticated"
             /\ conn[last.conn].state \in {"closing", "closed"}

\* C1, witness: a start_script on the replay endpoint was refused on a
\* connection without user id, which the server is closing
C1_Witness ==
    /\ last.msg = "start_script"
    /\ ~last.hadUser
    /\ last.reply = "error: Not authenticated"
    /\ conn[last.conn].state = "closing"
    /\ Started = {}

\* C1 as stated: ANY message other than authenticate that arrives while the
\* connection has no user id is answered with an error and the connection
\* is closed.  A frame that fails to parse is answered, but the connection
\* stays open.
C1_AnyMessageCloses ==
    (last.msg \notin {None, "authenticate"} /\ ~last.hadUser)
        => conn[last.conn].state \in {"closing", "closed"}

\* the positions of a handler invocation inside the decision loop
LoopPcs == {"model", "validate", "act"}

Running(t) == task[t].kind = "live" /\ task[t].pc \in LoopPcs

\* C2 as stated: a session never has two decision loops at once, because a
\* second start_agent on the session is rejected.  handleAgentStart has no
\* such check: a second start launches a second browser and loop.
C2_OneLoopPerSession ==
    \A t, u \in Tasks :
        (t # u /\ Running(t) /\ Running(u)) => task[t].conn # task[u].conn

\* C3 as stated: once the stored status of a run is COMPLETED or FAILED, no
\* step of the supervisor changes the stored run.  A second handler
\* invocation for the same run writes INPROGRESS or FAILED over it.
C3_TerminalIsFinal ==
    [][\A r \in Runs : Terminal(store[r].status) => store'[r] = store[r]]_vars

Completions(c, r) ==
    {<<t, k>> \in Tasks \X (1..4) :
        /\ task[t].kind = "live" /\ task[t].conn = c /\ task[t].run = r
        /\ k \in DOMAIN sent[t]
        /\ sent[t][k].type = "completion"}

\* C4 as stated: at most one completion event is sent on a session for a
\* run.  Two handler invocations on one session (see C2) send one each.
C4_OneCompletionPerRun ==
    \A c \in Conns, r \in Runs : Cardinality(Completions(c, r)) <= 1

\* C5 as stated: every completion event sent follows a terminal write that
\* succeeded.  updateRunStatus only logs the error of the update, and
\* handleAgentError sends the event regardless.
C5_CompletionAfterPersisted ==
    \A t \in Tasks : \A k \in DOMAIN sent[t] :
        sent[t][k].type = "completion" => sent[t][k].persisted

\* C10 as stated: once the connection of a running loop is closed, the
\* handler does not go on to another model call or tool: its next step
\* leaves the loop.  Nothing in the close handler or the loop looks at the
\* connection.
C10_CloseCancelsLoop ==
    [][\A t \in Tasks :
          (/\ Running(t)
           /\ conn[task[t].conn].state = "closed"
           /\ task'[t] # task[t])
          => task'[t].pc \notin LoopPcs]_vars

\* C6 as stated: the loop makes at most 25 model calls.  A turn that ends
\* in the repetition error leaves stepCount as it was, so the model can be
\* called again without bound.
C6_AtMost25ModelCalls ==
    \A t \in Tasks : agent[t].calls <= MAX_STEPS

\* the reasons that name the step cap
NamesMaxSteps(msg) == msg \in {"max steps", "Maximum steps reached"}

\* C7 as stated: a run whose loop stopped at the step cap is stored FAILED
\* with a reason naming max steps.  performTask only logs the cap and
\* returns nothing; the stored reason is the TypeError of reading the result.
C7_MaxStepsReason ==
    \A t \in Tasks :
        (/\ task[t].exit = "maxSteps"
         /\ task[t].pc = "done"
         /\ sent[t] # << >> /\ sent[t][Len(sent[t])].persisted)
        => /\ store[task[t].run].status = "FAILED"
           /\ NamesMaxSteps(store[task[t].run].finalAnswer)

\* C8: at most 25 tools are dispatched in a live run (stepCount counts the
\* dispatches begun, dispatched those that ran), and once 25 have run the
\* handler is outside the loop: no further model call, no further tool.
C8_AtMost25Dispatches ==
    \A t \in Tasks :
        /\ agent[t].dispatched <= agent[t].stepCount
        /\ agent[t].stepCount <= MAX_STEPS
        /\ agent[t].dispatched = MAX_STEPS => ~Running(t)

\* C8, witness: 25 tools ran and performTask returned at the cap
C8_Witness ==
    \E t \in Tasks :
        /\ agent[t].dispatched = MAX_STEPS
        /\ task[t].exit = "maxSteps"
        /\ task[t].pc = "done"

\* a model turn was answered in this step, and its text equals the text of
\* the turn before once the bracketed segments are removed
SameStrippedTurn(t) ==
    /\ agent'[t].calls = agent[t].calls + 1
    /\ agent[t].turn # None
    /\ StripBrackets(agent'[t].lastText) = StripBrackets(agent[t].lastText)

\* the turn ended in the repetition error: one guidance message, no tool,
\* no step
RepetitionTurn(t) ==
    /\ agent'[t].turn = "repetition"
    /\ agent'[t].guidance = agent[t].guidance + 1
    /\ agent'[t].stepCount = agent[t].stepCount
    /\ agent'[t].dispatched = agent[t].dispatched
    /\ agent'[t].executedCommands = agent[t].executedCommands
    /\ task'[t].pc = "model"

C11_DisconnectLeavesInProgress ==
    [][\A t \in Tasks :
          (/\ task[t].kind = "live"
           /\ conn[task[t].conn].state = "closed"
           /\ task'[t] # task[t]
           /\ store[task[t].run].status = "INPROGRESS")
          => store'[task[t].run].status = "INPROGRESS"]_vars

\* a heartbeat tick counted by connection c happened in this step
TickSeen(c) == Live(c) /\ conn'[c].ticks = conn[c].ticks + 1

\* what a tick does to a connection that is live
TickRule(c) ==
    Live(c) =>
        IF conn[c].isAlive
        THEN conn'[c].state = conn[c].state /\ ~conn'[c].isAlive
        ELSE conn'[c].state = "terminated"

ToolErrors == {E_TOOL, E_UNKNOWN, E_CAPTCHA}

\* C13 as stated: an error of a tool dispatch, or a pre-check CAPTCHA left
\* unsolved, does not end the run as FAILED.  executeAction rethrows, the
\* catch of performTask rethrows everything but the repetition error, and
\* handleAgentError stores FAILED with that error.
C13_ToolErrorFailsOnlyStep ==
    \A r \in Runs :
        store[r].status = "FAILED" => store[r].finalAnswer \notin ToolErrors


(***************************************************************************)
(* Replay (handleScriptStart).                                             *)
(***************************************************************************)
IsReplay(t) == task[t].kind = "replay"

StepsOf(t) == task[t].steps

\* an event of the given type for step n was sent by handler t
Has(t, type, n) ==
    \E k \in DOMAIN sent[t] : sent[t][k].type = type /\ sent[t][k].status = n

TypesOf(cmds) == [k \in DOMAIN cmds |-> cmds[k].type]

IsNotCaptcha(type) == type # "solveCaptcha"

\* the stored non-CAPTCHA commands of a trace
NonCaptcha(cmds) == SelectSeq(TypesOf(cmds), IsNotCaptcha)

\* the replay went through its last step
RanToEnd(t) ==
    /\ IsReplay(t)
    /\ task[t].threwAt = 0
    /\ Has(t, "step_completed", Len(StepsOf(t)))

\* C15 as stated: for every replay that runs to its end, the tools
\* dispatched are the stored non-CAPTCHA commands, one per command, in
\* stored order.  executeCommand runs no tool for a command whose field is
\* missing or empty, and it runs the solver for a stored solveCaptcha.
C15_DispatchesEqualStored ==
    \A t \in Tasks :
        RanToEnd(t) => agent[t].executedCommands = NonCaptcha(StepsOf(t))

StepEvent(e) == e.type \in {"step_started", "step_completed"}

RECURSIVE StepTrace(_)
\* step_started(1), step_completed(1), ..., step_started(n), step_completed(n)
StepTrace(n) ==
    IF n = 0 THEN << >>
    ELSE StepTrace(n - 1) \o <<Event("step_started", n, FALSE),
                               Event("step_completed", n, FALSE)>>

\* the handler is over and every command went through
AllSucceeded(t) == RanToEnd(t) /\ task[t].pc = "done"

C17_SolvedBeforeDispatch ==
    [][\A t \in Tasks :
          (/\ IsReplay(t)
           /\ \E k \in DOMAIN sent'[t] :
                 k > Len(sent[t]) /\ sent'[t][k].type = "captcha_solved")
          => agent'[t].executedCommands = agent[t].executedCommands]_vars

(***************************************************************************)
(* Step updates (the executeAction override).                              *)
(***************************************************************************)
IsStepUpdate(e) == e.type = "step_update"

\* the step numbers of the step updates handler t sent, in emission order
StepNumbers(t) ==
    LET ups == SelectSeq(sent[t], IsStepUpdate)
    IN  [k \in DOMAIN ups |-> ups[k].status]

\* C18 as stated: the step numbers emitted for a run are 1..N without gap
\* or duplicate.  stepCount also counts the tool calls whose screenshot
\* capture returned null, for which no step update is sent.
C18_StepNumbersContiguous ==
    \A t \in Tasks :
        \A k \in DOMAIN StepNumbers(t) : StepNumbers(t)[k] = k


\* C19 as stated: when step_update(n) is emitted on a session, no
\* step_update(m) with m > n was emitted on that session before.  Each
\* decision loop numbers its updates with its own stepCount, and a session
\* can run two loops at once (see C2).
C19_StepUpdatesIncrease ==
    [][\A t, u \in Tasks :
          \A k \in DOMAIN sent'[t] : \A j \in DOMAIN sent[u] :
              (/\ k > Len(sent[t])
               /\ sent'[t][k].type = "step_update"
               /\ task[u].conn = task[t].conn
               /\ sent[u][j].type = "step_update")
              => sent[u][j].status <= sent'[t][k].status]_vars

(***************************************************************************)
(* The persisted commands.                                                 *)
(***************************************************************************)
\* C20: the commands stored with a run never contain a solveCaptcha
\* statement: getExecutedCommands writes no statement for that command.
C20_NoSolveCaptchaPersisted ==
    \A r \in Runs :
        store[r].commands # None =>
            \A k \in DOMAIN store[r].commands :
                store[r].commands[k] # "solveCaptcha"

\* C20 witness: handle_captcha was dispatched during a run and the commands
\* of that run were stored at its termination
C20_Witness ==
    \E t \in Tasks :
        /\ task[t].kind = "live"
        /\ \E k \in DOMAIN agent[t].executedCommands :
              agent[t].executedCommands[k] = "solveCaptcha"
        /\ Terminal(store[task[t].run].status)
        /\ store[task[t].run].commands
              = GetExecutedCommands(agent[t].executedCommands)


(***************************************************************************)
(* Termination of a live run.                                              *)
(***************************************************************************)
\* C21 as stated: when a model response has no tool call, the run is
\* persisted as COMPLETED with the text of that response as its final
\* answer.  performTask returns nothing, so the read of result.steps throws
\* and handleAgentError persists FAILED with the message of that TypeError.
C21_FinalAnswerCompletes ==
    \A t \in Tasks :
        (/\ task[t].kind = "live"
         /\ task[t].exit = "final"
         /\ Terminal(store[task[t].run].status))
        => /\ store[task[t].run].status = "COMPLETED"
           /\ store[task[t].run].finalAnswer = agent[t].lastText


\* the steps a run made: the tool calls of its loop that went through
StepsMade(t) == agent[t].dispatched

\* C22 as stated: the steps persisted with the terminal status of a run are
\* the steps the run made.  The agent keeps no step records, performTask
\* returns none, and handleAgentError persists the empty list.
C22_PersistedStepsAreTheSteps ==
    \A t \in Tasks :
        (/\ task[t].kind = "live"
         /\ task[t].pc = "done"
         /\ Terminal(store[task[t].run].status))
        => Len(store[task[t].run].steps) = StepsMade(t)


\* C23: a start_agent that finds its run COMPLETED or FAILED answers with
\* the existing_run event built from the stored status, steps, final answer
\* and commands, closes the connection and returns: the step writes nothing
\* to the store, launches no browser and starts no screenshot pump.
C23_TerminalRunIsOnlyReported ==
    [][\A t \in Tasks :
          (/\ At(t, "fetch")
           /\ Terminal(store[task[t].run].status)
           /\ sent'[t] # sent[t])
          => /\ sent'[t] = Append(sent[t], ExistingRun(store[task[t].run]))
             /\ conn'[task[t].conn].state # "open"
             /\ task'[t].pc = "done"
             /\ store' = store
             /\ \A u \in Tasks :
                   agent'[u].browser = "open" => agent[u].browser = "open"
             /\ timers' \subseteq timers
             /\ \A r \in Ids : screenshotIntervals'[r] \in {0, screenshotIntervals[r]}]_vars

\* C23 witness: a handler answered a start for a FAILED run with the stored
\* final answer and commands, and the connection is closing
C23_Witness ==
    \E t \in Tasks :
        /\ task[t].kind = "live" /\ task[t].pc = "done"
        /\ sent[t] = <<ExistingRun(store[task[t].run])>>
        /\ store[task[t].run].status = "FAILED"
        /\ conn[task[t].conn].state = "closing"


(***************************************************************************)
(* Authentication failures.                                                *)
(***************************************************************************)
AuthFailures == {"authentication failed: No token provided",
                 "authentication failed"}

\* C24 as stated: every failed authentication, without token or with a
\* rejected token, is answered with authentication failed and the
\* connection is then closed.  handleAuthentication returns after the
\* answer to a message without token: the connection stays open.
C24_FailedAuthenticationCloses ==
    (last.msg = "authenticate" /\ last.reply \in AuthFailures)
        => conn[last.conn].state \in {"closing", "closed"}


(***************************************************************************)
(* Store failures.                                                         *)
(***************************************************************************)
\* C25 as stated: the supervisor never returns silently and never carries
\* on after a store operation failed: a handler that ends has sent an event
\* to its client, and a handler goes on to launch the browser only with its
\* run stored as INPROGRESS.  fetchRunData answers a failed select with
\* null, on which handleAgentStart returns; updateRunStatus only logs the
\* error of the update.
C25_StoreFailureIsReported ==
    [][\A t \in Tasks :
          task[t].kind = "live" =>
              /\ (task[t].pc # "done" /\ task'[t].pc = "done")
                    => sent'[t] # << >>
              /\ (At(t, "markInProgress") /\ task'[t].pc = "init")
                    => store'[task[t].run].status = "INPROGRESS"]_vars


(***************************************************************************)
(* User scoping.                                                           *)
(***************************************************************************)
\* C26 as stated: every read and write of a run or an automation touches
\* only rows of the caller.  getAgentRunById, getAutomationById,
\* updateAutomation and deleteAutomation filter on the id alone.
C26_OnlyOwnRows == resp.owner \in {None, resp.caller}


(***************************************************************************)
(* Live commands against the replay engine.                                *)
(***************************************************************************)
\* executeAction: the tool a live dispatch runs and the arguments it passes
LiveDispatch(tool) ==
    CASE tool = "handle_url" -> <<"navigationTool", "url">>
      [] tool = "handle_search" -> <<"searchTool", "query">>
      [] tool = "handle_click" -> <<"clickTool", "identifier">>
      [] tool = "handle_typing" -> <<"typingTool", "placeholder_value", "text">>
      [] tool = "handle_typing_with_enter" ->
            <<"typingWithEnterTool", "placeholder_value", "text">>
      [] tool = "handle_captcha" -> <<"captchaSolver">>
      [] tool = "scroll_down" -> <<"scrollTool">>
      [] tool = "handle_back" -> <<"backTool">>
      [] OTHER -> <<"throws">>

\* executeAction: the object pushed on executedCommands after the tool ran;
\* a field holds the name of the tool argument it was given, selectors as
\* the code builds them
RecordOf(tool) ==
    CASE tool = "handle_url" -> [command |-> "goto", url |-> "url"]
      [] tool = "handle_search" ->
            [command |-> "type", selector |-> "[name=q]", value |-> "query"]
      [] tool = "handle_click" ->
            [command |-> "click", selector |-> "identifier"]
      [] tool \in {"handle_typing", "handle_typing_with_enter"} ->
            [command |-> CommandOf(tool),
             selector |-> "[placeholder=placeholder_value]",
             value |-> "text"]
      [] OTHER -> [command |-> CommandOf(tool)]

\* the read of a property of a JavaScript object: undefined when missing
Field(rec, key) == IF key \in DOMAIN rec THEN rec[key] ELSE None

\* ScriptRunnerAgent.executeCommand on a stored object: the tool it runs
\* with its arguments, a silent skip, or the throw of the default case
ReplayDispatch(rec) ==
    LET type == Field(rec, "type")
        url == Field(rec, "url")
        identifier == Field(rec, "identifier")
        placeholder == Field(rec, "placeholder_value")
        text == Field(rec, "text")
        query == Field(rec, "query")
    IN  CASE type = "navigation" ->
                IF url # None THEN <<"navigationTool", url>> ELSE <<"skips">>
          [] type = "click" ->
                IF identifier # None THEN <<"clickTool", identifier>>
                ELSE <<"skips">>
          [] type \in {"type", "typeAndEnter"} ->
                IF placeholder # None /\ text # None
                THEN <<IF type = "type" THEN "typingTool"
                       ELSE "typingWithEnterTool", placeholder, text>>
                ELSE <<"skips">>
          [] type = "search" ->
                IF query # None THEN <<"searchTool", query>> ELSE <<"skips">>
          [] type = "scroll" -> <<"scrollTool">>
          [] type = "back" -> <<"backTool">>
          [] type = "solveCaptcha" -> <<"captchaSolver">>
          [] OTHER -> <<"throws">>

\* C27 as stated: the command a live dispatch records makes the replay
\* engine run the same tool with the same arguments.  The live records
\* carry their tag under `command` and their arguments under url, selector
\* and value; the replay engine reads `type`, url, identifier,
\* placeholder_value, text and query.
C27_LiveCommandReplays ==
    \A t \in Tasks :
        (At(t, "act") /\ task[t].tool \in KnownTools)
        => ReplayDispatch(RecordOf(task[t].tool)) = LiveDispatch(task[t].tool)


(***************************************************************************)
(* The annotator.                                                          *)
(***************************************************************************)
\* what Annotate() leaves in the document
Annotations(p) == <<p.cls, p.data, p.labels, p.styles>>

\* the last two evaluations in the document were a and b
LastTwo(a, b) ==
    /\ Len(page.ops) >= 2
    /\ page.ops[Len(page.ops) - 1] = a
    /\ page.ops[Len(page.ops)] = b

\* C28: an Annotate() that directly follows an Annotate() in the same
\* document leaves the annotations as they were (the outlined elements, the
\* data attributes, the badges with their numbers and elements), and the
\* document never holds more than one injected stylesheet.
C28_AnnotateIdempotent ==
    [][/\ (/\ page.ops # << >>
           /\ page.ops[Len(page.ops)] = "annotate"
           /\ page'.ops = Append(page.ops, "annotate"))
          => Annotations(page') = Annotations(page)
       /\ page'.styles <= 1]_vars

\* C28 witness: two Annotate() in a row, the second one run to its end, in
\* a document with a badge, an outlined element without badge and a hidden
\* element
C28_Witness ==
    /\ page.ops = <<"annotate", "annotate">>
    /\ ~page.strict
    /\ page.kind = <<"named", "hidden", "bare">>
    /\ page.cls = {1, 3}
    /\ page.labels = <<[text |-> 2, at |-> 3]>>
    /\ page.styles = 1

\* C29 as stated: after Annotate() followed by Clear() no element carries
\* the highlight class or the data-highlighted attribute, no badge remains
\* and the stylesheet is gone.  REMOVE_HIGHLIGHTS_SCRIPT removes the badges,
\* the stylesheet and the inline borders, not the class nor the attribute.
C29_ClearLeavesNoResidue ==
    LastTwo("annotate", "clear")
        => /\ page.cls = {} /\ page.data = {}
           /\ page.labels = << >> /\ page.styles = 0


(***************************************************************************)
(* The periodic screenshots.                                               *)
(***************************************************************************)
\* C30 as stated: in one session at most one browser operation is in
\* flight: no periodic screenshot is in flight while the tool of a command
\* drives the page, and never two periodic screenshots at once.  The timer
\* callback takes its screenshot without testing or taking any lock.
C30_OneBrowserOperationInFlight ==
    \A t \in Tasks :
        /\ shots[t].inFlight <= 1
        /\ ToolInFlight(t) => shots[t].inFlight = 0


(***************************************************************************)
(* The CAPTCHA handler.                                                    *)
(***************************************************************************)
\* C31 as stated: the reCAPTCHA image challenge always ends with a result,
\* after at most 5 outer attempts and a bounded number of tile-selection
\* rounds.  The pass loop of a continuous task has no counter: it repeats
\* while the vision model selects tiles and checkSuccess answers false.
C31_ImageChallengeTerminates ==
    /\ [](cap.attempts <= maxAttempts)
    /\ <>(cap.pc = "done")

\* C32 as stated: run() reports solved exactly when detection finds no
\* qualifying element on the page at that moment.
C32_SolvedIffNothingDetected ==
    (cap.pc = "done" /\ cap.result \in {"solved", "unable"})
        => (cap.result = "solved" <=> ~cap.present)

\* the strategies of run() in their order
Strategies == <<"reCAPTCHA", "hCaptcha", "text">>

\* C33: the strategies are tried in the order reCAPTCHA, hCaptcha,
\* text/image, each one only after every earlier one returned not solved;
\* run() stops at the first that returns solved and reports that it is
\* unable only after all three returned not solved.
C33_StrategiesInOrder ==
    /\ Len(cap.tried) <= 3
    /\ \A k \in 1..Len(cap.tried) :
          /\ cap.tried[k].strategy = Strategies[k]
          /\ k < Len(cap.tried) => ~cap.tried[k].solved
    /\ (cap.tried # << >> /\ cap.tried[Len(cap.tried)].solved)
          <=> cap.result = "solved"
    /\ cap.result = "unable"
          <=> (Len(cap.tried) = 3 /\ \A k \in 1..3 : ~cap.tried[k].solved)
    /\ (cap.pc = "done" /\ cap.tried # << >>)
          => cap.result \in {"solved", "unable"}

\* C33 witness: reCAPTCHA and hCaptcha returned not solved and text/image
\* solved it
C33_Witness ==
    /\ cap.pc = "done"
    /\ cap.result = "solved"
    /\ Len(cap.tried) = 3
    /\ cap.tried[3].solved


(***************************************************************************)
(* The click and typing tools.                                             *)
(***************************************************************************)
\* the last tool run was a click on the document as it is now
Clicked ==
    /\ lastTool.name = "handle_click"
    /\ lastTool.at = Len(page.ops)

\* the text of element e is the identifier, letter case apart
SameText(e, identifier) ==
    /\ page.text[e] # << >>
    /\ ToLowerCase(page.text[e]) = ToLowerCase(identifier)

\* the text of element e contains the identifier, letter case apart
HasText(e, identifier) ==
    /\ page.text[e] # << >>
    /\ Includes(ToLowerCase(page.text[e]), ToLowerCase(identifier))

Highlighted == page.cls

Selectable == {e \in Elements : page.kind[e] \in {"named", "hidden"}}

\* C34 (as amended): Click(text) resolves by fixed priority, letter case
\* apart: an exact match among the highlighted elements wins over a
\* substring match there, which wins over a match among the standard
\* selectors; the numbered label is used only for a numeric identifier that
\* none of those matched; and when the texts of the highlighted elements are
\* unique letter case apart, Click(text) resolves to the one highlighted
\* element bearing that text.
C34_ClickPriority ==
    Clicked =>
      LET id == lastTool.identifier
          exact == {e \in Highlighted : SameText(e, id)}
          partial == {e \in Highlighted : HasText(e, id)}
          standard == {e \in Selectable : HasText(e, id)}
      IN  /\ exact # {} => lastTool.element \in exact
          /\ (exact = {} /\ partial # {}) => lastTool.element \in partial
          /\ (partial = {} /\ standard # {}) => lastTool.element \in standard
          /\ lastTool.by = "label"
                => IsNumeric(id) /\ partial = {} /\ standard = {}
          /\ (\A e, f \in Highlighted :
                 (e # f /\ page.text[e] # << >>) => ~SameText(f, page.text[e]))
                => exact \in {{}, {lastTool.element}}

\* C34 witness: a click on "a" in a document where a highlighted element
\* whose text contains "a" precedes the highlighted element whose text is "a"
C34_Witness ==
    /\ Clicked
    /\ lastTool.identifier = <<"a">>
    /\ page.cls = {1, 2}
    /\ page.text[1] = <<"a", "b">>
    /\ page.text[2] = <<"a">>
    /\ lastTool.element = 2
    /\ lastTool.by = "exact"

\* C34 as stated: when the texts of the highlighted elements are unique,
\* Click(text) resolves to the one element bearing exactly that text.
C34_ClickResolvesUniqueText ==
    (/\ Clicked
     /\ \A e, f \in Highlighted :
           (e # f /\ page.text[e] # << >>) => page.text[e] # page.text[f])
        => \A e \in Highlighted :
              page.text[e] = lastTool.identifier => lastTool.element = e

\* the badged elements in document order
RECURSIVE BadgedFrom(_)
BadgedFrom(e) ==
    IF e > MaxElements THEN << >>
    ELSE (IF e \in page.cls /\ page.kind[e] = "bare" THEN <<e>> ELSE << >>)
         \o BadgedFrom(e + 1)

\* C35 as stated: after Annotate() the badge numbers are 1, 2, 3, ... over
\* the visible clickables without textual identifier, in document order,
\* and Click("k") resolves to the k-th badged element.  numberIndex is
\* incremented for every element the script marks, badged or not.
C35_BadgesContiguous ==
    /\ page.ops # << >>
          => /\ Len(page.labels) = Len(BadgedFrom(1))
             /\ \A k \in 1..Len(page.labels) :
                   /\ page.labels[k].text = k
                   /\ page.labels[k].at = BadgedFrom(1)[k]
    /\ (Clicked /\ page.ops # << >> /\ lastTool.by = "label")
          => \E k \in 1..Len(BadgedFrom(1)) :
                /\ lastTool.identifier = IndexToString(k)
                /\ lastTool.element = BadgedFrom(1)[k]

\* C36 as stated: handle_typing_with_enter surfaces an error only after its
\* third attempt failed.  run() makes one attempt; executeWithRetry is never
\* called.
C36_TypingRetriesThreeTimes ==
    (lastTool.name = "handle_typing_with_enter" /\ lastTool.result = "error")
        => lastTool.attempts = 3


(***************************************************************************)
(* Release of browsers and timers.                                         *)
(***************************************************************************)
\* every handler invocation that was started has ended
AllEnded == Started # {} /\ \A t \in Started : task[t].pc = "done"

\* C37 as stated: a browser is closed and a timer stopped only in the step
\* in which the loop that created them ends, and once every loop has ended
\* no browser is open and no timer is armed.  activeAgents and
\* screenshotIntervals are keyed by the run or automation id, so a second
\* loop under the same id overwrites the entries of the first.
C37_ReleasedByOwnCleanup ==
    /\ [][\A t \in Tasks :
            /\ (agent[t].browser = "open" /\ agent'[t].browser = "closed")
                  => (task[t].pc # "done" /\ task'[t].pc = "done")
            /\ (t \in timers /\ t \notin timers')
                  => (task[t].pc # "done" /\ task'[t].pc = "done")]_vars
    /\ [](AllEnded => /\ \A t \in Tasks : agent[t].browser # "open"
                      /\ timers = {})

(***************************************************************************)
(* The user of a connection.                                               *)
(***************************************************************************)
\* C38 as stated: once a connection has a user id it keeps it, and the user
\* id under which a running handler issues its reads and writes never
\* changes.  handleMessage runs handleAuthentication on every authenticate
\* message and setupAuthenticatedClient overwrites client.userId and
\* client.supabase; handleAgentStart reads ws.userId again at each write.
C38_UserIdIsFixed ==
    [][/\ \A c \in Conns :
             conn[c].userId # None => conn'[c].userId = conn[c].userId
       /\ \A t \in Started :
             (task[t].wUser # None /\ task[t].pc # "done")
                => task'[t].wUser = task[t].wUser]_vars

(***************************************************************************)
(* The end of a replay.                                                    *)
(***************************************************************************)
\* the terminal events a handler invocation has sent
TerminalEvents(t) ==
    {k \in 1..Len(sent[t]) : sent[t][k].type \in {"completion", "failed"}}

\* C39 as stated: a replay that has ended has sent exactly one terminal
\* event, a completion or a failure.  The catch of the step loop sends
\* failed and throws the error again into the outer catch, which sends
\* failed a second time.
C39_OneTerminalEvent ==
    \A t \in Tasks :
        (InReplay(t, "done") \/ InReplay(t, "linger"))
            => Cardinality(TerminalEvents(t)) = 1

(***************************************************************************)
(* The tools declared to the language model.                               *)
(***************************************************************************)
\* C40 as stated: the dispatch of a tool call that uses a declared name
\* never ends in the unknown-tool error.  ScrollTool is declared under the
\* name handle_scroll; the switch of executeAction has the case scroll_down.
C40_DeclaredToolsAreDispatched ==
    [][\A t \in Tasks :
          (task[t].pc = "act" /\ task[t].tool \in DeclaredTools)
             => task'[t].wMsg # E_UNKNOWN]_vars

=============================================================================
